---- MODULE Spec2Model ----
(***************************************************************************)
(* Tiered conversational memory of the Marshee assistant: the per-user     *)
(* Redis chat buffer (app/redis_service.py), its threshold- and            *)
(* idle-triggered summarisation, and the Pinecone client it hands the      *)
(* summary to (app/pinecone_service.py).                                   *)
(*                                                                         *)
(* Every Redis command, and every MULTI/EXEC pipeline, is one atomic step. *)
(* Request tasks and the idle sweep may run in different service           *)
(* instances that share the Redis server, so their steps interleave.       *)
(***************************************************************************)
EXTENDS Integers, Sequences, FiniteSets, TLC

\* ---------------------------------------------------------------- bounds
MaxEvents == 3          \* turns stored, long pauses and outages in one behaviour of Spec
MaxSeqAppends == 11     \* turns stored in one behaviour of SpecSeq
MaxQueryLen == 3        \* characters of the generated query texts
MaxTime == 200000       \* the clock stops here in SpecLive (more than two TTLs)
MaxShortPauses == 3     \* pauses just past the idle threshold in one behaviour of SpecLive
MaxChatLen == 7         \* stored turns of the longest buffer handed to a generation call
MaxSkips == 2          \* onboarding submissions that name another stage than the current one
MaxCalls == 2           \* generation calls in one behaviour of SpecGenerate

\* ----------------------------------------------------- program constants
SummaryThreshold == 10
InactiveThreshold == 180
ChatTTL == 86400
MaxTextLen == 2000
MinUserIdLen == 3
MinFirestoreIdLen == 5
StartTime == 1000       \* time.time() when the service starts (epoch seconds)
PreloadLen == 9         \* turns already buffered in the loaded start of Spec

None == "None"     \* Python None where a string is expected
Nil == 0 - 1        \* Redis nil / Python None where a number is expected

\* user_1:2 never sends a request: only the start of SpecSweepTwo gives it a buffer
Users == {"user_1", "user_1:2"}
UserIdInputs == {"u1", "user_1"}
UserMessageInputs == {"", "is my dog sick?"}
ResponseInputs == {"", "Hi there!"}

Handlers == {"h1", "h2"}
Sweepers == {"s1"}
Procs == Handlers \cup Sweepers

\* the long pauses of the clock: just past the idle threshold, a full TTL
TickSteps == {InactiveThreshold + 1, ChatTTL}

VARIABLES
  redis_initialized,    \* RedisService.initialized and redis_client is set
  pinecone_initialized, \* PineconeService.initialized and index is set
  redisUp,              \* environment: the Redis server answers commands
  now,                  \* environment: wall clock, seconds
  chat,                 \* chat:<user>      the list, head (newest) first
  chat_expire,          \* chat:<user>      absolute expiry or Nil
  activity,             \* activity:<user>  time of last append or Nil
  activity_expire,      \* activity:<user>  absolute expiry or Nil
  semantic_store,       \* records handed to the index by completed summary writes
  pc,                   \* position of every task
  uid,                  \* user a task's flush works for
  chat_history,         \* a flush's parsed snapshot
  wrote,                \* a flush's Summary write has completed
  todo,                 \* sweep: activity keys still to examine
  current_time,         \* sweep: time.time() taken at the start of the sweep
  attempts,             \* RedisService.initialize: connection attempts made
  \* history variables
  appended,             \* every turn an append stored
  expired,              \* turns removed by TTL expiry
  appendLog,            \* turns stored since the last clear, in append order
  thresholdFlushAt,     \* number of stored turns at each flush add_message invoked
  lastFlush,            \* how the flush that ended last ended
  escaped,              \* operations an exception propagated out of
  nAppends,             \* turns stored so far in this behaviour
  events,               \* long pauses and outages so far in this behaviour
  failedSnapshot,       \* snapshot of the latest flush whose Summary write raised
  \* context assembly, the conversation turn and uploads
  db_connected,         \* database.db.connected and db.database is set
  chat_messages,        \* documents of the chat_messages collection
  index_vectors,        \* vectors upserted into the index by upload_text_file
  turn,                 \* process_user_message / marshee_interaction of every request task
  routed,               \* the latest select_namespaces call and its result
  retrieved,            \* the latest get_context call and its result
  upload,               \* the latest handle_file_upload call and its result
  \* start-up, profile writes, generation and onboarding
  sleeps,               \* RedisService.initialize: the waits between its attempts
  pinecone_init,        \* PineconeService.initialize: whether it ended, its attempts
  profile_save,         \* the latest save_user_data call and its result
  groq_initialized,     \* GroqService.initialized and client is set
  generations,          \* the generate_response_with_full_context calls, in order
  setup,                \* the latest request that completed the initial setup
  \* the onboarding stages
  users,                \* documents of the users collection, by firestore_id
  interaction           \* the latest onboarding request and its response

vars == <<redis_initialized, pinecone_initialized, redisUp, now, chat, chat_expire,
          activity, activity_expire, semantic_store, pc, uid, chat_history, wrote,
          todo, current_time, attempts, appended, expired, appendLog,
          thresholdFlushAt, lastFlush, escaped, nAppends,
          events, failedSnapshot, db_connected, chat_messages, index_vectors, turn,
          routed, retrieved, upload, sleeps, pinecone_init, profile_save, groq_initialized,
          generations, setup, users, interaction>>

redisVars == <<chat, chat_expire, activity, activity_expire>>
histVars == <<appended, expired, appendLog, nAppends>>
memVars == <<redis_initialized, pinecone_initialized, redisUp, now, chat, chat_expire,
             activity, activity_expire, semantic_store, pc, uid, chat_history, wrote,
             todo, current_time, attempts, appended, expired, appendLog,
             thresholdFlushAt, lastFlush, escaped, nAppends, events, failedSnapshot>>
onbVars == <<users, interaction>>
svcVars == <<sleeps, pinecone_init, profile_save, groq_initialized, generations, setup,
             onbVars>>
ctxVars == <<db_connected, chat_messages, index_vectors, turn, routed, retrieved, upload,
             svcVars>>

\* ------------------------------------------------------------ pure helpers
Range(f) == {f[i] : i \in DOMAIN f}

\* a key or id text is the sequence of the pieces its colons separate:
\* user_id.split(":") of the ids in use
Segments == ("user_1" :> <<"user_1">>) @@ ("user_1:2" :> <<"user_1", "2">>) @@ ("u1" :> <<"u1">>)

\* f"chat:{user_id}"
get_chat_key(u) == <<"chat">> \o Segments[u]

\* f"activity:{user_id}"
get_last_activity_key(u) == <<"activity">> \o Segments[u]

\* variant: the piece between the first two colons, activity_key.split(":")[1]
UserOfActivityKey_splitAll(k) == CHOOSE u \in DOMAIN Segments : Segments[u] = <<k[2]>>

\* activity_key.split(":", 1)[1]: all the text after the first colon
UserOfActivityKey(k) == CHOOSE u \in DOMAIN Segments : Segments[u] = Tail(k)

\* s[:2000]
Truncate(s) == IF Len(s) <= MaxTextLen THEN s ELSE SubSeq(s, 1, MaxTextLen)

\* json.dumps / json.loads of a message object
Dumps(m) == <<"json", m>>

Decodable(s) == s[1] = "json"

Loads(s) == s[2]

\* the message object add_message builds
Message(u, user_message, marshee_response, t) ==
  [user_message |-> Truncate(user_message),
   marshee_response |-> Truncate(marshee_response),
   timestamp |-> t,
   user_id |-> u]

\* variant: the new element is added at the tail (RPUSH)
LPush_tail(list, e) == list \o <<e>>

\* redis LPUSH: the new element becomes the head of the list
LPush(list, e) == <<e>> \o list

Reversed(s) == [i \in 1..Len(s) |-> s[Len(s) + 1 - i]]

DecodeAll(s) == [i \in 1..Len(s) |-> Loads(s[i])]

\* variant: only the SummaryThreshold newest elements are read (LRANGE 0 9)
ParseMessages_newest(messages) ==
  DecodeAll(SelectSeq(Reversed(SubSeq(messages, 1,
      IF Len(messages) < SummaryThreshold THEN Len(messages) ELSE SummaryThreshold)), Decodable))

\* the parse loop of create_and_save_summary: chronological, undecodable skipped
ParseMessages(messages) == DecodeAll(SelectSeq(Reversed(messages), Decodable))

\* generate_summary: the header names the user, the last line the message count
generate_summary(history, u) == [user_id |-> u, total_messages |-> Len(history)]

ValidUserId(u) == Len(u) >= MinUserIdLen

\* variant: only the user id is tested
ValidInput_idOnly(u, um, mr) == ValidUserId(u)

\* the input tests of add_message
ValidInput(u, um, mr) == ValidUserId(u) /\ Len(um) > 0 /\ Len(mr) > 0

\* the methods class PineconeService defines
PineconeServiceMethods ==
  {"initialize", "get_embedding", "select_namespaces", "get_context",
   "save_user_data", "upload_text_file", "split_text_into_chunks", "is_ready"}

RedisIsReady == redis_initialized

PineconeIsReady == pinecone_initialized

\* exception classes the except clauses name
\* variant: create_and_save_summary handles only the missing attribute
FlushCatches_narrow(exc) == exc \in {"AttributeError"}

AddMessageCatches(exc) == exc \in {"RedisError", "AttributeError", "Exception"}

FlushCatches(exc) == exc \in {"RedisError", "AttributeError", "Exception"}

CountCatches(exc) == exc \in {"RedisError", "AttributeError", "Exception"}

\* variant: the per-key handler without redis.RedisError
SweepInnerCatches_noRedis(exc) == exc \in {"ValueError", "IndexError"}

SweepInnerCatches(exc) == exc \in {"ValueError", "IndexError", "RedisError"}

SweepOuterCatches(exc) == exc \in {"RedisError", "AttributeError", "Exception"}

TypeOK ==
  /\ redis_initialized \in BOOLEAN
  /\ pinecone_initialized \in BOOLEAN
  /\ redisUp \in BOOLEAN
  /\ now \in Nat
  /\ DOMAIN chat = Users
  /\ DOMAIN pc = Procs

\* no request handled, no upload made, the database not yet connected
NoTurn == [stage |-> "none"]

\* handle_file_upload not called yet
NotUploaded == [called |-> FALSE]

\* get_context not called yet
NotRetrieved == [called |-> FALSE]

\* select_namespaces not called yet
NotRouted == [query |-> <<>>, namespaces |-> <<>>]

\* save_user_data not called yet
NotSaved == [called |-> FALSE]

\* no request has completed the initial setup yet
NotSetup == [called |-> FALSE]

\* no onboarding request yet
NotAsked == [called |-> FALSE, skips |-> 0]

\* PineconeService.initialize not called yet / ended after n connection attempts
PineconeInit(ended, n) == [ended |-> ended, attempts |-> n, waits |-> <<>>]

CtxInit ==
  /\ db_connected = FALSE
  /\ chat_messages = {}
  /\ index_vectors = {}
  /\ turn = [p \in Handlers |-> NoTurn]
  /\ routed = NotRouted
  /\ retrieved = NotRetrieved
  /\ upload = NotUploaded
  /\ sleeps = <<>>
  /\ pinecone_init = PineconeInit(pinecone_initialized, IF pinecone_initialized THEN 1 ELSE 0)
  /\ profile_save = NotSaved
  /\ groq_initialized = FALSE
  /\ generations = <<>>
  /\ setup = NotSetup
  /\ users = [id \in {} |-> None]
  /\ interaction = NotAsked

Init ==
  /\ redis_initialized = FALSE
  /\ pinecone_initialized = FALSE
  /\ redisUp \in BOOLEAN
  /\ now = StartTime
  /\ chat = [u \in Users |-> <<>>]
  /\ chat_expire = [u \in Users |-> Nil]
  /\ activity = [u \in Users |-> Nil]
  /\ activity_expire = [u \in Users |-> Nil]
  /\ semantic_store = {}
  /\ pc = [p \in Procs |-> "idle"]
  /\ uid = [p \in Procs |-> None]
  /\ chat_history = [p \in Procs |-> <<>>]
  /\ wrote = [p \in Procs |-> FALSE]
  /\ todo = [p \in Sweepers |-> {}]
  /\ current_time = [p \in Sweepers |-> 0]
  /\ attempts = 0
  /\ appended = {}
  /\ expired = {}
  /\ appendLog = [u \in Users |-> <<>>]
  /\ thresholdFlushAt = <<>>
  /\ lastFlush = "none"
  /\ escaped = {}
  /\ nAppends = 0
  /\ events = 0
  /\ failedSnapshot = <<>>
  /\ CtxInit

\* the turns a single request task has stored after n successive valid calls
PreloadTurn(i) == Message("user_1", "is my dog sick?", "Hi there!", StartTime + i - 1)

\* the state after a start-up that succeeded and PreloadLen successive appends
\* of one request task (SpecSeq reaches it; the per-behaviour counters restart)
InitLoaded ==
  /\ redis_initialized = TRUE
  /\ pinecone_initialized \in BOOLEAN
  /\ redisUp = TRUE
  /\ now = StartTime + PreloadLen
  /\ chat = [u \in Users |-> IF u = "user_1"
         THEN [i \in 1..PreloadLen |-> Dumps(PreloadTurn(PreloadLen + 1 - i))] ELSE <<>>]
  /\ chat_expire = [u \in Users |->
         IF u = "user_1" THEN StartTime + PreloadLen - 1 + ChatTTL ELSE Nil]
  /\ activity = [u \in Users |-> IF u = "user_1" THEN StartTime + PreloadLen - 1 ELSE Nil]
  /\ activity_expire = [u \in Users |->
         IF u = "user_1" THEN StartTime + PreloadLen - 1 + ChatTTL ELSE Nil]
  /\ semantic_store = {}
  /\ pc = [p \in Procs |-> "idle"]
  /\ uid = [p \in Procs |-> None]
  /\ chat_history = [p \in Procs |-> <<>>]
  /\ wrote = [p \in Procs |-> FALSE]
  /\ todo = [p \in Sweepers |-> {}]
  /\ current_time = [p \in Sweepers |-> 0]
  /\ attempts = 1
  /\ appended = {PreloadTurn(i) : i \in 1..PreloadLen}
  /\ expired = {}
  /\ appendLog = [u \in Users |->
         IF u = "user_1" THEN [i \in 1..PreloadLen |-> PreloadTurn(i)] ELSE <<>>]
  /\ thresholdFlushAt = <<>>
  /\ lastFlush = "none"
  /\ escaped = {}
  /\ nAppends = 0
  /\ events = 0
  /\ failedSnapshot = <<>>
  /\ CtxInit

\* the turns of the two buffers SpecSweepTwo starts with
TwoTurn(u, t) == Message(u, "is my dog sick?", "Hi there!", t)

\* the two-user start: first and last turn of each buffer
TwoFirst(u) == IF u = "user_1" THEN StartTime + InactiveThreshold + 2 - PreloadLen
               ELSE StartTime

TwoLast(u) == IF u = "user_1" THEN StartTime + InactiveThreshold ELSE StartTime + 1

TwoLen(u) == TwoLast(u) - TwoFirst(u) + 1

\* the state after a start-up that succeeded, two appends for user_1:2 and,
\* just before the idle threshold is reached for user_1:2, PreloadLen appends
\* for user_1: user_1:2's last append is exactly InactiveThreshold seconds old
InitTwo ==
  /\ redis_initialized = TRUE
  /\ pinecone_initialized \in BOOLEAN
  /\ redisUp = TRUE
  /\ now = StartTime + InactiveThreshold + 1
  /\ chat = [u \in Users |-> [i \in 1..TwoLen(u) |-> Dumps(TwoTurn(u, TwoLast(u) + 1 - i))]]
  /\ chat_expire = [u \in Users |-> TwoLast(u) + ChatTTL]
  /\ activity = [u \in Users |-> TwoLast(u)]
  /\ activity_expire = [u \in Users |-> TwoLast(u) + ChatTTL]
  /\ semantic_store = {}
  /\ pc = [p \in Procs |-> "idle"]
  /\ uid = [p \in Procs |-> None]
  /\ chat_history = [p \in Procs |-> <<>>]
  /\ wrote = [p \in Procs |-> FALSE]
  /\ todo = [p \in Sweepers |-> {}]
  /\ current_time = [p \in Sweepers |-> 0]
  /\ attempts = 1
  /\ appended = UNION {{TwoTurn(u, t) : t \in TwoFirst(u)..TwoLast(u)} : u \in Users}
  /\ expired = {}
  /\ appendLog = [u \in Users |-> [i \in 1..TwoLen(u) |-> TwoTurn(u, TwoFirst(u) + i - 1)]]
  /\ thresholdFlushAt = <<>>
  /\ lastFlush = "none"
  /\ escaped = {}
  /\ nAppends = 0
  /\ events = 0
  /\ failedSnapshot = <<>>
  /\ CtxInit

\* ------------------------------------------------------------ environment
\* the Redis server becomes unreachable / reachable again
RedisDown ==
  /\ redisUp
  /\ nAppends + events < MaxEvents
  /\ redisUp' = FALSE
  /\ events' = events + 1
  /\ UNCHANGED <<redis_initialized, pinecone_initialized, now, redisVars, semantic_store,
                 pc, uid, chat_history, wrote, todo, current_time, attempts, histVars,
                 thresholdFlushAt, lastFlush, escaped>>
  /\ UNCHANGED <<ctxVars, failedSnapshot>>

RedisBack ==
  /\ ~redisUp
  /\ redisUp' = TRUE
  /\ UNCHANGED <<redis_initialized, pinecone_initialized, now, redisVars, semantic_store,
                 pc, uid, chat_history, wrote, todo, current_time, attempts, histVars,
                 thresholdFlushAt, lastFlush, escaped, events>>
  /\ UNCHANGED <<ctxVars, failedSnapshot>>

\* variant: no expiry is set on the keys, they live for ever
Alive_noExpiry(e, t) == TRUE

\* a key with expiry e still exists at time t
Alive(e, t) == e = Nil \/ e > t

\* d seconds pass; Redis drops every key whose expiry has been reached (EXPIRE)
Elapse(d) ==
  /\ now' = now + d
  /\ chat' = [u \in Users |-> IF Alive(chat_expire[u], now') THEN chat[u] ELSE <<>>]
  /\ chat_expire' = [u \in Users |-> IF Alive(chat_expire[u], now') THEN chat_expire[u] ELSE Nil]
  /\ activity' = [u \in Users |-> IF Alive(activity_expire[u], now') THEN activity[u] ELSE Nil]
  /\ activity_expire' = [u \in Users |->
         IF Alive(activity_expire[u], now') THEN activity_expire[u] ELSE Nil]
  /\ expired' = expired \cup
         UNION {{Loads(chat[u][i]) : i \in 1..Len(chat[u])} :
                  u \in {v \in Users : ~Alive(chat_expire[v], now')}}
  /\ appendLog' = [u \in Users |-> IF Alive(chat_expire[u], now') THEN appendLog[u] ELSE <<>>]
  /\ UNCHANGED nAppends
  /\ UNCHANGED <<redis_initialized, pinecone_initialized, redisUp, semantic_store, pc, uid,
                 chat_history, wrote, todo, current_time, attempts, appended,
                 thresholdFlushAt, lastFlush, escaped>>
  /\ UNCHANGED <<ctxVars, failedSnapshot>>

\* a long pause, counted in the budget of the behaviour
Tick(d) ==
  /\ nAppends + events < MaxEvents
  /\ events' = events + 1
  /\ Elapse(d)

\* a long pause while a key is still to expire, up to MaxTime; of the pauses
\* shorter than the TTL only the first MaxShortPauses are told apart
LiveTick(d) ==
  /\ \E u \in Users : chat_expire[u] # Nil \/ activity_expire[u] # Nil
  /\ now + d <= MaxTime
  /\ d < ChatTTL => now + d <= StartTime + PreloadLen + MaxShortPauses * (InactiveThreshold + 1)
  /\ UNCHANGED events
  /\ Elapse(d)

\* ---------------------------------------------------------- initialisation
\* RedisService.initialize: one pass of its loop, a connection attempt and,
\* unless it succeeded or was the third, the sleep of 2 ** attempt seconds
RedisInitialize ==
  /\ ~redis_initialized
  /\ attempts < 3
  /\ attempts' = attempts + 1
  /\ redis_initialized' = redisUp
  /\ IF ~redisUp /\ attempts + 1 < 3
       THEN /\ sleeps' = Append(sleeps, 2 ^ attempts)
            /\ now' = now + 2 ^ attempts
       ELSE UNCHANGED <<sleeps, now>>
  /\ UNCHANGED <<pinecone_initialized, redisUp, redisVars, semantic_store, pc, uid,
                 chat_history, wrote, todo, current_time, histVars, thresholdFlushAt,
                 lastFlush, escaped, events, failedSnapshot>>
  /\ UNCHANGED <<db_connected, chat_messages, index_vectors, turn, routed, retrieved, upload,
                 pinecone_init, profile_save, groq_initialized, generations, setup, onbVars>>

\* what PineconeService.initialize meets: no API key, no sentence_transformers,
\* a Pinecone call that raises, or none of these
PineconeOutcomes == {"no_key", "no_encoder", "raises", "ok"}

\* PineconeService.initialize with outcome o: it is a single pass
PineconeInitializeWith(o) ==
  /\ ~pinecone_init.ended
  /\ pinecone_initialized' = (o = "ok")
  /\ pinecone_init' = PineconeInit(TRUE, IF o \in {"raises", "ok"} THEN 1 ELSE 0)
  /\ UNCHANGED <<redis_initialized, redisUp, now, redisVars, semantic_store, pc, uid,
                 chat_history, wrote, todo, current_time, attempts, histVars,
                 thresholdFlushAt, lastFlush, escaped, events, failedSnapshot>>
  /\ UNCHANGED <<db_connected, chat_messages, index_vectors, turn, routed, retrieved, upload,
                 sleeps, profile_save, groq_initialized, generations, setup, onbVars>>

\* PineconeService.initialize succeeding (a failed one leaves the flag False)
PineconeInitialize == PineconeInitializeWith("ok")

\* PineconeService.initialize ending with the service disabled
PineconeInitializeFails == \E o \in PineconeOutcomes \ {"ok"} : PineconeInitializeWith(o)

\* ------------------------------------------------------------- add_message
\* where a task continues when its create_and_save_summary returns
SweepContinue(remaining) == IF remaining = {} THEN "idle" ELSE "sw_get"

AfterFlush(p) == IF p \in Handlers THEN "count" ELSE SweepContinue(todo[p])

\* variant: the expiry is set only on a key that has none (EXPIRE ... NX)
Expire_onlyIfUnset(old, t) == IF old = Nil THEN t + ChatTTL ELSE old

\* EXPIRE key 86400 at time t: the new absolute expiry of a key that had `old`
Expire(old, t) == t + ChatTTL

\* variant: the marker lives for the idle window only
ExpireActivity_idleWindow(old, t) == t + InactiveThreshold

\* EXPIRE activity:<user> 86400, the last command of the append's pipeline
ExpireActivity(old, t) == Expire(old, t)

\* add_message up to and including the pipeline (LPUSH, SET, EXPIRE, EXPIRE)
AddMessage(p, u, um, mr) ==
  /\ pc[p] = "idle"
  /\ uid' = [uid EXCEPT ![p] = u]
  /\ IF ~RedisIsReady \/ ~ValidInput(u, um, mr)
       THEN /\ pc' = [pc EXCEPT ![p] = "count"]
            /\ UNCHANGED <<now, redisVars, histVars, escaped>>
       ELSE IF redisUp
         THEN LET m == Message(u, um, mr, now) IN
              /\ chat' = [chat EXCEPT ![u] = LPush(@, Dumps(m))]
              /\ activity' = [activity EXCEPT ![u] = now]
              /\ chat_expire' = [chat_expire EXCEPT ![u] = Expire(@, now)]
              /\ activity_expire' = [activity_expire EXCEPT ![u] = ExpireActivity(@, now)]
              /\ now' = now + 1   \* the next utcnow() / time.time() reads later
              /\ appended' = appended \cup {m}
              /\ nAppends' = nAppends + 1
              /\ appendLog' = [appendLog EXCEPT ![u] = Append(@, m)]
              /\ pc' = [pc EXCEPT ![p] = "llen"]
              /\ UNCHANGED <<expired, escaped>>
         ELSE /\ pc' = [pc EXCEPT ![p] = IF AddMessageCatches("RedisError") THEN "count" ELSE "idle"]
              /\ escaped' = IF AddMessageCatches("RedisError") THEN escaped
                            ELSE escaped \cup {"add_message"}
              /\ UNCHANGED <<now, redisVars, histVars>>
  /\ UNCHANGED <<redis_initialized, pinecone_initialized, redisUp, semantic_store,
                 chat_history, wrote, todo, current_time, attempts, thresholdFlushAt,
                 lastFlush, events>>
  /\ UNCHANGED failedSnapshot

\* add_message: LLEN and the threshold test
AddMessageCount(p) ==
  /\ pc[p] = "llen"
  /\ IF redisUp
       THEN LET message_count == Len(chat[uid[p]]) IN
            /\ IF message_count >= SummaryThreshold
                 THEN /\ pc' = [pc EXCEPT ![p] = "flush_lrange"]
                      /\ thresholdFlushAt' = Append(thresholdFlushAt, Cardinality(appended))
                 ELSE /\ pc' = [pc EXCEPT ![p] = "count"]
                      /\ UNCHANGED thresholdFlushAt
            /\ UNCHANGED escaped
       ELSE /\ pc' = [pc EXCEPT ![p] = IF AddMessageCatches("RedisError") THEN "count" ELSE "idle"]
            /\ escaped' = IF AddMessageCatches("RedisError") THEN escaped
                          ELSE escaped \cup {"add_message"}
            /\ UNCHANGED thresholdFlushAt
  /\ UNCHANGED <<redis_initialized, pinecone_initialized, redisUp, now, redisVars,
                 semantic_store, uid, chat_history, wrote, todo, current_time, attempts,
                 histVars, lastFlush, events>>
  /\ UNCHANGED <<ctxVars, failedSnapshot>>

\* what get_current_message_count returns to process_user_message, and the
\* operations an exception leaves
get_current_message_count(u) ==
  IF ~RedisIsReady \/ ~ValidUserId(u) THEN [value |-> 0, esc |-> {}]
  ELSE IF redisUp THEN [value |-> Len(chat[u]), esc |-> {}]
  ELSE IF CountCatches("RedisError") THEN [value |-> 0, esc |-> {}]
  ELSE [value |-> Nil, esc |-> {"get_current_message_count"}]

\* get_current_message_count, called by process_user_message after add_message
GetCurrentMessageCount(p) ==
  /\ pc[p] = "count"
  /\ pc' = [pc EXCEPT ![p] = "idle"]
  /\ uid' = [uid EXCEPT ![p] = None]
  /\ escaped' = escaped \cup get_current_message_count(uid[p]).esc
  /\ UNCHANGED <<redis_initialized, pinecone_initialized, redisUp, now, redisVars,
                 semantic_store, chat_history, wrote, todo, current_time, attempts,
                 histVars, thresholdFlushAt, lastFlush, events>>
  /\ UNCHANGED <<ctxVars, failedSnapshot>>

\* -------------------------------------------------- create_and_save_summary
\* an exception raised inside create_and_save_summary: where control resumes
\* and which operations it propagates out of
FlushRaise(p, exc) ==
  IF FlushCatches(exc) THEN [pc |-> AfterFlush(p), esc |-> {}]
  ELSE IF p \in Handlers
    THEN IF AddMessageCatches(exc)
           THEN [pc |-> "count", esc |-> {"create_and_save_summary"}]
           ELSE [pc |-> "idle", esc |-> {"create_and_save_summary", "add_message"}]
    ELSE IF SweepInnerCatches(exc)
           THEN [pc |-> SweepContinue(todo[p]), esc |-> {"create_and_save_summary"}]
           ELSE IF SweepOuterCatches(exc)
             THEN [pc |-> "idle", esc |-> {"create_and_save_summary"}]
             ELSE [pc |-> "idle",
                   esc |-> {"create_and_save_summary", "check_inactive_users"}]

\* a task leaves create_and_save_summary; its locals, and those of a sweep
\* that ends with it, are dropped
EndFlush(p, result, next) ==
  /\ pc' = [pc EXCEPT ![p] = next]
  /\ lastFlush' = result
  /\ chat_history' = [chat_history EXCEPT ![p] = <<>>]
  /\ wrote' = [wrote EXCEPT ![p] = FALSE]
  /\ uid' = [uid EXCEPT ![p] = IF p \in Sweepers THEN None ELSE @]
  /\ current_time' = [s \in Sweepers |-> IF s = p /\ next = "idle" THEN 0 ELSE current_time[s]]
  /\ todo' = [s \in Sweepers |-> IF s = p /\ next = "idle" THEN {} ELSE todo[s]]
  /\ failedSnapshot' = IF result = "save_raised" THEN chat_history[p] ELSE failedSnapshot

\* LRANGE 0 -1, the parse loop and generate_summary
FlushRead(p) ==
  /\ pc[p] = "flush_lrange"
  /\ IF ~RedisIsReady
       THEN EndFlush(p, "not_initialized", AfterFlush(p)) /\ UNCHANGED escaped
       ELSE IF ~redisUp
         THEN /\ EndFlush(p, "read_raised", FlushRaise(p, "RedisError").pc)
              /\ escaped' = escaped \cup FlushRaise(p, "RedisError").esc
         ELSE LET messages == chat[uid[p]]
                  history == ParseMessages(messages)
              IN  /\ IF messages = <<>> \/ history = <<>>
                       THEN EndFlush(p, "empty", AfterFlush(p))
                       ELSE /\ pc' = [pc EXCEPT ![p] = "flush_save"]
                            /\ chat_history' = [chat_history EXCEPT ![p] = history]
                            /\ UNCHANGED <<lastFlush, wrote, uid, current_time, todo, failedSnapshot>>
                  /\ UNCHANGED escaped
  /\ UNCHANGED <<redis_initialized, pinecone_initialized, redisUp, now, redisVars,
                 semantic_store, attempts, histVars, thresholdFlushAt, events>>
  /\ UNCHANGED ctxVars

\* variant: the buffer is cleared although the call of save_chat_summary raised
FlushSave_clearOnError(p) ==
  /\ pc[p] = "flush_save"
  /\ IF PineconeIsReady
       THEN /\ EndFlush(p, "save_raised", FlushRaise(p, "AttributeError").pc)
            /\ escaped' = escaped \cup FlushRaise(p, "AttributeError").esc
            /\ chat' = [chat EXCEPT ![uid[p]] = <<>>]
            /\ chat_expire' = [chat_expire EXCEPT ![uid[p]] = Nil]
            /\ activity' = [activity EXCEPT ![uid[p]] = Nil]
            /\ activity_expire' = [activity_expire EXCEPT ![uid[p]] = Nil]
            /\ appendLog' = [appendLog EXCEPT ![uid[p]] = <<>>]
       ELSE /\ pc' = [pc EXCEPT ![p] = "flush_clear"]
            /\ UNCHANGED <<redisVars, appendLog, chat_history, wrote, lastFlush, escaped,
                           uid, current_time, todo, failedSnapshot>>
  /\ UNCHANGED <<redis_initialized, pinecone_initialized, redisUp, now, semantic_store,
                 attempts, appended, expired, nAppends, thresholdFlushAt, events>>
  /\ UNCHANGED ctxVars

\* pinecone_service.is_ready() and the call of pinecone_service.save_chat_summary
FlushSave(p) ==
  /\ pc[p] = "flush_save"
  /\ IF PineconeIsReady
       THEN IF "save_chat_summary" \in PineconeServiceMethods
         THEN /\ semantic_store' = semantic_store \cup
                    {[user_id |-> uid[p],
                      summary |-> generate_summary(chat_history[p], uid[p]),
                      chat_history |-> chat_history[p]]}
              /\ pc' = [pc EXCEPT ![p] = "flush_clear"]
              /\ wrote' = [wrote EXCEPT ![p] = TRUE]
              /\ UNCHANGED <<chat_history, lastFlush, escaped, uid, current_time, todo,
                             failedSnapshot>>
         ELSE /\ EndFlush(p, "save_raised", FlushRaise(p, "AttributeError").pc)
              /\ escaped' = escaped \cup FlushRaise(p, "AttributeError").esc
              /\ UNCHANGED semantic_store
       ELSE /\ pc' = [pc EXCEPT ![p] = "flush_clear"]
            /\ UNCHANGED <<semantic_store, chat_history, wrote, lastFlush, escaped, uid,
                           current_time, todo, failedSnapshot>>
  /\ UNCHANGED <<redis_initialized, pinecone_initialized, redisUp, now, redisVars,
                 attempts, histVars, thresholdFlushAt, events>>
  /\ UNCHANGED ctxVars

\* variant: only the turns of the snapshot are removed (LTRIM)
Delete_trim(list, snapshot) == SubSeq(list, 1, Len(list) - Len(snapshot))

\* DEL chat:<user>: the list the key holds afterwards, whatever the snapshot
Delete(list, snapshot) == <<>>

\* variant: the two DELs are sent one by one, the first one takes effect
\* before the connection error
FlushClear_halfDone(p) ==
  /\ pc[p] = "flush_clear"
  /\ chat' = [chat EXCEPT ![uid[p]] = <<>>]
  /\ chat_expire' = [chat_expire EXCEPT ![uid[p]] = Nil]
  /\ appendLog' = [appendLog EXCEPT ![uid[p]] = <<>>]
  /\ IF redisUp
       THEN /\ activity' = [activity EXCEPT ![uid[p]] = Nil]
            /\ activity_expire' = [activity_expire EXCEPT ![uid[p]] = Nil]
            /\ EndFlush(p, "cleared", AfterFlush(p))
            /\ UNCHANGED escaped
       ELSE /\ EndFlush(p, "clear_raised", FlushRaise(p, "RedisError").pc)
            /\ escaped' = escaped \cup FlushRaise(p, "RedisError").esc
            /\ UNCHANGED <<activity, activity_expire>>
  /\ UNCHANGED <<redis_initialized, pinecone_initialized, redisUp, now, semantic_store,
                 attempts, appended, expired, nAppends, thresholdFlushAt, events>>
  /\ UNCHANGED ctxVars

\* the pipeline DEL chat:<user>, DEL activity:<user>
FlushClear(p) ==
  /\ pc[p] = "flush_clear"
  /\ IF redisUp
       THEN /\ chat' = [chat EXCEPT ![uid[p]] = Delete(@, chat_history[p])]
            /\ chat_expire' = [chat_expire EXCEPT ![uid[p]] = Nil]
            /\ activity' = [activity EXCEPT ![uid[p]] = Nil]
            /\ activity_expire' = [activity_expire EXCEPT ![uid[p]] = Nil]
            /\ appendLog' = [appendLog EXCEPT ![uid[p]] = <<>>]
            /\ EndFlush(p, "cleared", AfterFlush(p))
            /\ UNCHANGED escaped
       ELSE /\ EndFlush(p, "clear_raised", FlushRaise(p, "RedisError").pc)
            /\ escaped' = escaped \cup FlushRaise(p, "RedisError").esc
            /\ UNCHANGED <<redisVars, appendLog>>
  /\ UNCHANGED <<redis_initialized, pinecone_initialized, redisUp, now, semantic_store,
                 attempts, appended, expired, nAppends, thresholdFlushAt, events>>
  /\ UNCHANGED ctxVars

\* ------------------------------------------------------ check_inactive_users
\* an exception raised inside the for loop of check_inactive_users
SweepRaise(exc, remaining) ==
  IF SweepInnerCatches(exc) THEN [pc |-> SweepContinue(remaining), esc |-> {}]
  ELSE IF SweepOuterCatches(exc) THEN [pc |-> "idle", esc |-> {}]
  ELSE [pc |-> "idle", esc |-> {"check_inactive_users"}]

\* variant: idle from the threshold on
IsInactive_atThreshold(current, last_activity) == current - last_activity >= InactiveThreshold

\* the idle test of check_inactive_users
IsInactive(current, last_activity) == current - last_activity > InactiveThreshold

ActivityKeys == {get_last_activity_key(u) : u \in {v \in Users : activity[v] # Nil}}

\* GET of an activity key: the value stored under that key
ActivityAt(k) == activity[CHOOSE v \in Users : get_last_activity_key(v) = k]

\* a sweep moves on to `next`; one that ends drops its locals
SweepGoto(s, next, remaining) ==
  /\ pc' = [pc EXCEPT ![s] = next]
  /\ todo' = [todo EXCEPT ![s] = IF next = "idle" THEN {} ELSE remaining]
  /\ current_time' = [current_time EXCEPT ![s] = IF next = "idle" THEN 0 ELSE @]

\* KEYS activity:* and time.time()
SweepStart(s) ==
  /\ pc[s] = "idle"
  /\ IF ~RedisIsReady
       THEN UNCHANGED <<pc, todo, current_time, escaped>>
       ELSE IF ~redisUp
         THEN /\ escaped' = IF SweepOuterCatches("RedisError") THEN escaped
                            ELSE escaped \cup {"check_inactive_users"}
              /\ UNCHANGED <<pc, todo, current_time>>
         ELSE /\ todo' = [todo EXCEPT ![s] = ActivityKeys]
              /\ current_time' = [current_time EXCEPT ![s] = IF ActivityKeys = {} THEN 0 ELSE now]
              /\ pc' = [pc EXCEPT ![s] = SweepContinue(ActivityKeys)]
              /\ UNCHANGED escaped
  /\ UNCHANGED <<redis_initialized, pinecone_initialized, redisUp, now, redisVars,
                 semantic_store, uid, chat_history, wrote, attempts, histVars,
                 thresholdFlushAt, lastFlush, events>>
  /\ UNCHANGED <<ctxVars, failedSnapshot>>

\* GET activity:<user> of the next key and the idle test
SweepGet(s) ==
  /\ pc[s] = "sw_get"
  /\ \E k \in todo[s] :
       LET remaining == todo[s] \ {k}
           u == UserOfActivityKey(k)
           last_activity == IF ActivityAt(k) = Nil THEN 0 ELSE ActivityAt(k)
       IN  IF ~redisUp
             THEN /\ SweepGoto(s, SweepRaise("RedisError", remaining).pc, remaining)
                  /\ escaped' = escaped \cup SweepRaise("RedisError", remaining).esc
                  /\ UNCHANGED uid
             ELSE IF IsInactive(current_time[s], last_activity)
               THEN /\ SweepGoto(s, "sw_llen", remaining)
                    /\ uid' = [uid EXCEPT ![s] = u]
                    /\ UNCHANGED escaped
               ELSE /\ SweepGoto(s, SweepContinue(remaining), remaining)
                    /\ UNCHANGED <<uid, escaped>>
  /\ UNCHANGED <<redis_initialized, pinecone_initialized, redisUp, now, redisVars,
                 semantic_store, chat_history, wrote, attempts, histVars,
                 thresholdFlushAt, lastFlush, events>>
  /\ UNCHANGED <<ctxVars, failedSnapshot>>

\* LLEN chat:<user> and the call of create_and_save_summary
SweepLlen(s) ==
  /\ pc[s] = "sw_llen"
  /\ IF ~redisUp
       THEN /\ SweepGoto(s, SweepRaise("RedisError", todo[s]).pc, todo[s])
            /\ escaped' = escaped \cup SweepRaise("RedisError", todo[s]).esc
            /\ uid' = [uid EXCEPT ![s] = None]
       ELSE /\ IF Len(chat[uid[s]]) > 0
                 THEN /\ pc' = [pc EXCEPT ![s] = "flush_lrange"]
                      /\ UNCHANGED <<uid, todo, current_time>>
                 ELSE /\ SweepGoto(s, SweepContinue(todo[s]), todo[s])
                      /\ uid' = [uid EXCEPT ![s] = None]
            /\ UNCHANGED escaped
  /\ UNCHANGED <<redis_initialized, pinecone_initialized, redisUp, now, redisVars,
                 semantic_store, chat_history, wrote, attempts, histVars,
                 thresholdFlushAt, lastFlush, events>>
  /\ UNCHANGED <<ctxVars, failedSnapshot>>

\* ------------------------------------------------------- select_namespaces
\* a query text is the sequence of its characters
LowerMap ==
  ("A" :> "a") @@ ("B" :> "b") @@ ("C" :> "c") @@ ("D" :> "d") @@ ("E" :> "e") @@ ("F" :> "f") @@
  ("G" :> "g") @@ ("H" :> "h") @@ ("I" :> "i") @@ ("J" :> "j") @@ ("K" :> "k") @@ ("L" :> "l") @@
  ("M" :> "m") @@ ("N" :> "n") @@ ("O" :> "o") @@ ("P" :> "p") @@ ("Q" :> "q") @@ ("R" :> "r") @@
  ("S" :> "s") @@ ("T" :> "t") @@ ("U" :> "u") @@ ("V" :> "v") @@ ("W" :> "w") @@ ("X" :> "x") @@
  ("Y" :> "y") @@ ("Z" :> "z")

\* str.lower(), character by character
Lower(c) == IF c \in DOMAIN LowerMap THEN LowerMap[c] ELSE c

ToLower(text) == [i \in 1..Len(text) |-> Lower(text[i])]

\* word in text: word occurs as a contiguous piece of text
Contains(text, word) ==
  \E i \in 1..(Len(text) - Len(word) + 1) : SubSeq(text, i, i + Len(word) - 1) = word

HealthWords ==
  {<<"h", "e", "a", "l", "t", "h">>,
   <<"s", "i", "c", "k">>,
   <<"d", "i", "s", "e", "a", "s", "e">>,
   <<"v", "e", "t">>,
   <<"i", "l", "l", "n", "e", "s", "s">>,
   <<"s", "y", "m", "p", "t", "o", "m">>}

ProductWords ==
  {<<"f", "o", "o", "d">>,
   <<"e", "a", "t">>,
   <<"n", "u", "t", "r", "i", "t", "i", "o", "n">>,
   <<"d", "i", "e", "t">>,
   <<"p", "r", "o", "d", "u", "c", "t">>,
   <<"t", "o", "y">>,
   <<"b", "u", "y">>}

GroomingWords ==
  {<<"b", "a", "t", "h">>,
   <<"g", "r", "o", "o", "m">>,
   <<"b", "r", "u", "s", "h">>,
   <<"c", "l", "e", "a", "n">>,
   <<"h", "y", "g", "i", "e", "n", "e">>,
   <<"c", "a", "r", "e">>}

CompanyWords ==
  {<<"c", "o", "m", "p", "a", "n", "y">>,
   <<"h", "e", "l", "p">>,
   <<"s", "u", "p", "p", "o", "r", "t">>,
   <<"s", "e", "r", "v", "i", "c", "e">>,
   <<"c", "o", "n", "t", "a", "c", "t">>}

\* any(word in query_lower for word in words)
Fires(words, query_lower) == \E w \in words : Contains(query_lower, w)

AppendIf(cond, namespaces, ns) == IF cond THEN Append(namespaces, ns) ELSE namespaces

\* variant: health_data is added whenever the health rule did not add it
select_namespaces_alwaysHealth(query) ==
  LET query_lower == ToLower(query)
      n0 == <<"user_summary">>
      n1 == AppendIf(Fires(HealthWords, query_lower), n0, "health_data")
      n2 == AppendIf(Fires(ProductWords, query_lower), n1, "product_data")
      n3 == AppendIf(Fires(GroomingWords, query_lower), n2, "grooming_data")
      n4 == AppendIf(Fires(CompanyWords, query_lower), n3, "company_data")
  IN  AppendIf(~Fires(HealthWords, query_lower), n4, "health_data")

select_namespaces(query) ==
  LET query_lower == ToLower(query)
      n0 == <<"user_summary">>
      n1 == AppendIf(Fires(HealthWords, query_lower), n0, "health_data")
      n2 == AppendIf(Fires(ProductWords, query_lower), n1, "product_data")
      n3 == AppendIf(Fires(GroomingWords, query_lower), n2, "grooming_data")
      n4 == AppendIf(Fires(CompanyWords, query_lower), n3, "company_data")
  IN  AppendIf(Len(n4) = 1, n4, "health_data")

\* query texts: every text of at most MaxQueryLen characters of QueryAlphabet,
\* and some whole sentences
QueryAlphabet == {"v", "e", "t", "a", "V", " "}

SkinInfectionQuery ==
  <<"m", "y", " ", "d", "o", "g", " ", "h", "a", "s", " ", "a", " ", "s", "k", "i", "n", " ", "i", "n", "f", "e", "c", "t", "i", "o", "n">>

SentenceQueries ==
  {SkinInfectionQuery,
   <<"h", "e", "l", "l", "o">>,
   <<"I", "s", " ", "m", "y", " ", "d", "o", "g", " ", "S", "I", "C", "K", "?">>,
   <<"b", "u", "y", " ", "a", " ", "b", "r", "u", "s", "h">>,
   <<"h", "e", "l", "p", " ", "m", "e", " ", "g", "r", "o", "o", "m", " ", "m", "y", " ", "d", "o", "g">>,
   <<"h", "e", "a", "l", "t", "h", "c", "a", "r", "e">>,
   <<"C", "o", "n", "t", "a", "c", "t", " ", "s", "u", "p", "p", "o", "r", "t", " ", "a", "b", "o", "u", "t", " ", "F", "O", "O", "D">>}

QueryInputs == UNION {[1..n -> QueryAlphabet] : n \in 0..MaxQueryLen} \cup SentenceQueries

\* a caller evaluates select_namespaces(query), once in a behaviour
SelectNamespaces ==
  /\ routed = NotRouted
  /\ \E q \in QueryInputs : routed' = [query |-> q, namespaces |-> select_namespaces(q)]
  /\ UNCHANGED <<memVars, db_connected, chat_messages, index_vectors, turn, retrieved, upload,
                 svcVars>>

\* ------------------------------------------------------------- get_context
TopK == 3
MinScore == 70      \* match.score > 0.7, scores in hundredths

\* a query argument that is not a str (None)
NoneQuery == <<None>>

EmptyMapping == [ns \in {} |-> <<>>]

Match(text, score) == [text |-> text, score |-> score, type |-> "uploaded_file"]

\* what index.query answers for one namespace: it raises, or returns at most
\* TopK matches by descending score
StoreResponses ==
  {[ok |-> FALSE, matches |-> <<>>],
   [ok |-> TRUE, matches |-> <<>>],
   [ok |-> TRUE, matches |-> <<Match("a", 90), Match("b", 70)>>],
   [ok |-> TRUE, matches |-> <<Match("c", 71), Match("d", 69), Match("e", 40)>>]}

\* get_embedding: the encoder's vector, or the zero vector when it is
\* missing or raises
get_embedding(text, encodes) ==
  IF pinecone_initialized /\ encodes /\ text # NoneQuery
    THEN [zero |-> FALSE, of |-> text]
    ELSE [zero |-> TRUE, of |-> <<>>]

\* variant: every match the index returned is kept
GoodMatch_any(match) == TRUE

\* if match.score > 0.7
GoodMatch(match) == match.score > MinScore

FormatMatch(match) == [text |-> match.text, score |-> match.score, type |-> match.type]

\* the body of the for loop over namespaces, with its try/except
SearchNamespace(response) ==
  IF response.ok
    THEN LET good == SelectSeq(response.matches, GoodMatch)
         IN  [i \in 1..Len(good) |-> FormatMatch(good[i])]
    ELSE <<>>

GetContextCatches(exc) == exc \in {"AttributeError", "Exception"}

\* variant: no try/except inside the loop, a failed query ends the loop
get_context_noInnerTry(query, responses) ==
  IF ~PineconeIsReady THEN [value |-> EmptyMapping, raised |-> FALSE]
  ELSE IF query = NoneQuery
    THEN [value |-> EmptyMapping, raised |-> ~GetContextCatches("AttributeError")]
    ELSE IF \E ns \in DOMAIN responses : ~responses[ns].ok
      THEN [value |-> EmptyMapping, raised |-> ~GetContextCatches("Exception")]
      ELSE [value |-> [ns \in Range(select_namespaces(query)) |-> SearchNamespace(responses[ns])],
            raised |-> FALSE]

\* get_context: the mapping returned and whether an exception leaves it
get_context(query, responses) ==
  IF ~PineconeIsReady THEN [value |-> EmptyMapping, raised |-> FALSE]
  ELSE IF query = NoneQuery
    THEN [value |-> EmptyMapping, raised |-> ~GetContextCatches("AttributeError")]
    ELSE [value |-> [ns \in Range(select_namespaces(query)) |-> SearchNamespace(responses[ns])],
          raised |-> FALSE]

\* the top_k argument of index.query for a namespace
QueryTopK(namespace) == TopK

ContextQueries == SentenceQueries \cup {NoneQuery}

\* the namespaces get_context queries the index for
Queried(query) ==
  IF PineconeIsReady /\ query # NoneQuery THEN Range(select_namespaces(query)) ELSE {}

\* a caller evaluates get_context(user_id, query), once in a behaviour; the
\* encoder and the index answer as they choose
GetContext ==
  /\ ~retrieved.called
  /\ \E q \in ContextQueries, encodes \in BOOLEAN :
       \E responses \in [Queried(q) -> StoreResponses] :
         retrieved' = [query |-> q,
                       called |-> TRUE,
                       ready |-> PineconeIsReady,
                       embedding |-> get_embedding(q, encodes),
                       top_k |-> [ns \in Queried(q) |-> QueryTopK(ns)],
                       responses |-> responses,
                       result |-> get_context(q, responses).value,
                       raised |-> get_context(q, responses).raised]
  /\ UNCHANGED <<memVars, db_connected, chat_messages, index_vectors, turn, routed, upload,
                 svcVars>>

\* ------------------------------------------------- process_user_message
\* the characters of the message texts a request carries
CharsOf ==
  ("is my dog sick?" :> <<"i", "s", " ", "m", "y", " ", "d", "o", "g", " ", "s", "i", "c", "k", "?">>) @@
  ("hello" :> <<"h", "e", "l", "l", "o">>)

TurnMessages == DOMAIN CharsOf

\* connect_to_mongo succeeding (a failed one leaves connected False)
ConnectToMongo ==
  /\ ~db_connected
  /\ db_connected' = TRUE
  /\ UNCHANGED <<memVars, chat_messages, index_vectors, turn, routed, retrieved, upload,
                 svcVars>>

\* has_context = context and any(len(results) > 0 for results in context.values())
HasContext(context) == \E ns \in DOMAIN context : Len(context[ns]) > 0

\* build_response: the branch taken decides the text (names and counts left out)
build_response(user_message, context) ==
  IF HasContext(context)
    THEN IF "health_data" \in DOMAIN context
           THEN "I found relevant information. I can help with health concerns."
         ELSE IF "product_data" \in DOMAIN context
           THEN "I found relevant information. I found some product recommendations."
         ELSE IF "grooming_data" \in DOMAIN context
           THEN "I found relevant information. Here's what I know about grooming."
         ELSE IF "user_summary" \in DOMAIN context
           THEN "I found relevant information. Based on our previous conversations,"
         ELSE "I found relevant information."
    ELSE LET query_lower == ToLower(CharsOf[user_message]) IN
         IF Fires({<<"s", "i", "c", "k">>, <<"h", "e", "a", "l", "t", "h">>, <<"v", "e", "t">>, <<"i", "l", "l", "n", "e", "s", "s">>}, query_lower)
           THEN "I'm here to help. For any serious symptoms, please contact your vet."
         ELSE IF Fires({<<"f", "o", "o", "d">>, <<"e", "a", "t">>, <<"n", "u", "t", "r", "i", "t", "i", "o", "n">>, <<"d", "i", "e", "t">>}, query_lower)
           THEN "I'm here to help. Good nutrition is important."
         ELSE IF Fires({<<"g", "r", "o", "o", "m">>, <<"b", "a", "t", "h">>, <<"b", "r", "u", "s", "h">>, <<"c", "l", "e", "a", "n">>}, query_lower)
           THEN "I'm here to help. Regular grooming keeps your pet healthy."
         ELSE "I'm here to help with any questions."

\* the arguments process_user_message hands to build_response
BuildArgs(user_message, context) == [user_message |-> user_message, context |-> context]

\* what index.query answers during a conversation turn
TurnResponses ==
  {[ok |-> FALSE, matches |-> <<>>],
   [ok |-> TRUE, matches |-> <<Match("a", 90), Match("b", 70)>>]}

\* process_user_message, once for every request task: get_context inside its
\* try/except, then build_response
TurnContext(p) ==
  /\ turn[p].stage = "none"
  /\ pc[p] = "idle"
  /\ \E id \in UserIdInputs, um \in TurnMessages :
       \E responses \in [Queried(CharsOf[um]) -> TurnResponses] :
         LET got == get_context(CharsOf[um], responses)
             context == IF got.raised THEN EmptyMapping ELSE got.value
         IN  turn' = [turn EXCEPT ![p] =
                        [stage |-> "built",
                         firestore_id |-> id,
                         user_message |-> um,
                         build_args |-> BuildArgs(um, context),
                         context |-> context,
                         marshee_response |-> build_response(um, context),
                         result |-> None]]
  /\ UNCHANGED <<memVars, db_connected, chat_messages, index_vectors, routed, retrieved, upload,
                 svcVars>>

\* process_user_message: the call of redis_service.add_message
TurnTrack(p) ==
  /\ turn[p].stage = "built"
  /\ AddMessage(p, turn[p].firestore_id, turn[p].user_message, turn[p].marshee_response)
  /\ turn' = [turn EXCEPT ![p].stage = "tracking"]
  /\ UNCHANGED <<db_connected, chat_messages, index_vectors, routed, retrieved, upload,
                 svcVars>>

\* get_database()
get_database == IF db_connected THEN "database" ELSE None

\* the response object of a handled turn
APIResponse(success, status, text) ==
  [success |-> success, status |-> status, marshee_response |-> text]

\* what a turn answers when an exception leaves the handler
Raised(exc) == APIResponse(FALSE, exc, "")

\* user_service.save_chat / main.save_chat: the exception it raises, or None
save_chat(insert_ok) ==
  IF get_database = None THEN "AttributeError"
  ELSE IF ~insert_ok THEN "PyMongoError"
  ELSE None

ChatDocument(id, um, mr) ==
  [firestore_id |-> id, stage_id |-> "main_conversation", user_message |-> um,
   marshee_response |-> mr]

\* process_user_message: the call of user_service.save_chat and the return
TurnSave(p) ==
  /\ turn[p].stage = "tracking"
  /\ pc[p] = "idle"
  /\ \E insert_ok \in BOOLEAN :
       IF save_chat(insert_ok) = None
         THEN /\ chat_messages' = chat_messages \cup
                   {ChatDocument(turn[p].firestore_id, turn[p].user_message,
                                 turn[p].marshee_response)}
              /\ turn' = [turn EXCEPT ![p].stage = "done",
                                       ![p].result = APIResponse(TRUE, "200", turn[p].marshee_response)]
         ELSE /\ turn' = [turn EXCEPT ![p].stage = "done",
                                       ![p].result = Raised(save_chat(insert_ok))]
              /\ UNCHANGED chat_messages
  /\ UNCHANGED <<memVars, db_connected, index_vectors, routed, retrieved, upload,
                 svcVars>>

\* main.marshee_interaction for a user whose initial setup is complete: the
\* firestore_id check, get_user, the welcome text, save_chat of a message
\* and the except clauses at the end
MarsheeInteraction(p) ==
  /\ turn[p].stage = "none"
  /\ pc[p] = "idle"
  /\ \E id \in UserIdInputs, um \in TurnMessages \cup {""}, insert_ok \in BOOLEAN :
       LET text == "Welcome back! How can I help?"
           exc == IF Len(id) < MinFirestoreIdLen THEN "HTTPException"
                  ELSE IF get_database = None THEN "AttributeError"
                  ELSE IF um # "" THEN save_chat(insert_ok)
                  ELSE None
           saved == exc = None /\ um # ""
       IN  /\ chat_messages' = IF saved THEN chat_messages \cup {ChatDocument(id, um, text)}
                                ELSE chat_messages
           /\ turn' = [turn EXCEPT ![p] =
                  [stage |-> "done", firestore_id |-> id, user_message |-> um,
                   build_args |-> BuildArgs(um, EmptyMapping), context |-> EmptyMapping,
                   marshee_response |-> text,
                   result |-> IF exc = None THEN APIResponse(TRUE, "200", text)
                              ELSE IF exc = "HTTPException" THEN APIResponse(FALSE, "400", "")
                              ELSE APIResponse(FALSE, "500", "")]]
  /\ UNCHANGED <<memVars, db_connected, index_vectors, routed, retrieved, upload,
                 svcVars>>

\* ------------------------------------------------------ handle_file_upload
ALLOWED_NAMESPACES ==
  <<"health_data", "product_data", "grooming_data", "company_data", "training_data",
    "custom_data">>

ChunkSize == 1000
ChunkOverlap == 100

\* a byte that is not valid UTF-8
InvalidByte == "0xFF"

Whitespace == {" ", "\n", "\t"}

\* filename.endswith(suffix)
EndsWith(text, suffix) ==
  Len(text) >= Len(suffix) /\ SubSeq(text, Len(text) - Len(suffix) + 1, Len(text)) = suffix

\* content.decode('utf-8') raises UnicodeDecodeError
DecodeFails(content) == \E i \in 1..Len(content) : content[i] = InvalidByte

\* not text.strip()
Blank(text) == \A i \in 1..Len(text) : text[i] \in Whitespace

\* text.split(): the runs of characters that are not whitespace
RECURSIVE SplitFrom(_, _, _)
SplitFrom(text, i, word) ==
  IF i > Len(text) THEN (IF word = <<>> THEN <<>> ELSE <<word>>)
  ELSE IF text[i] \in Whitespace
    THEN (IF word = <<>> THEN <<>> ELSE <<word>>) \o SplitFrom(text, i + 1, <<>>)
    ELSE SplitFrom(text, i + 1, Append(word, text[i]))

Split(text) == SplitFrom(text, 1, <<>>)

\* split_text_into_chunks: windows of ChunkSize words every ChunkSize - ChunkOverlap
split_text_into_chunks(text) ==
  LET words == Split(text)
      step == ChunkSize - ChunkOverlap
      n == (Len(words) + step - 1) \div step
  IN  [k \in 1..n |->
         SubSeq(words, (k - 1) * step + 1,
                IF (k - 1) * step + ChunkSize < Len(words)
                  THEN (k - 1) * step + ChunkSize ELSE Len(words))]

\* the vectors upload_text_file builds
UploadVectors(text, namespace, filename) ==
  LET chunks == split_text_into_chunks(text)
  IN  {[id |-> <<filename, i - 1>>, namespace |-> namespace, text |-> chunks[i],
        source |-> filename, type |-> "uploaded_file"] : i \in 1..Len(chunks)}

\* the except clause of upload_text_file
UploadTextCatches(exc) == exc \in {"AttributeError", "Exception"}

\* upload_text_file: the dict it returns (every exception is caught inside)
upload_text_file(text, upsert_ok) ==
  IF ~PineconeIsReady
    THEN [success |-> FALSE, chunks |-> 0, raised |-> ~UploadTextCatches("Exception")]
  ELSE IF ~upsert_ok
    THEN [success |-> FALSE, chunks |-> 0, raised |-> ~UploadTextCatches("Exception")]
    ELSE [success |-> TRUE, chunks |-> Len(split_text_into_chunks(text)), raised |-> FALSE]

\* the exception raised inside the try block of handle_file_upload, or None
UploadTryRaises(content, upsert_ok) ==
  IF DecodeFails(content) THEN "UnicodeDecodeError"
  ELSE IF Blank(content) THEN "HTTPException"
  ELSE IF ~upload_text_file(content, upsert_ok).success THEN "HTTPException"
  ELSE None

\* the except clauses of handle_file_upload, in order: the status answered
UploadExcept(exc) == IF exc = "UnicodeDecodeError" THEN "400" ELSE "500"

\* handle_file_upload: the HTTP status answered
handle_file_upload(filename, namespace, content, upsert_ok) ==
  IF namespace \notin Range(ALLOWED_NAMESPACES) THEN "400"
  ELSE IF ~EndsWith(filename, <<".", "t", "x", "t">>) THEN "400"
  ELSE IF UploadTryRaises(content, upsert_ok) # None
    THEN UploadExcept(UploadTryRaises(content, upsert_ok))
    ELSE "200"

\* handle_file_upload gets as far as its call of upload_text_file
UploadReaches(filename, namespace, content) ==
  /\ namespace \in Range(ALLOWED_NAMESPACES)
  /\ EndsWith(filename, <<".", "t", "x", "t">>)
  /\ ~DecodeFails(content)
  /\ ~Blank(content)

NamespaceInputs == Range(ALLOWED_NAMESPACES) \cup {"user_summary", "bogus"}

FilenameInputs == {<<"a", ".", "t", "x", "t">>, <<"a", ".", "p", "d", "f">>, <<"t", "x", "t">>}

ContentInputs ==
  {<<>>, <<" ", "\n">>, <<"a">>, <<"a", " ", "b", "\n", "c">>, <<"a", InvalidByte>>}

\* a caller evaluates handle_file_upload(file, namespace), once in a behaviour
HandleFileUpload ==
  /\ ~upload.called
  /\ \E f \in FilenameInputs, ns \in NamespaceInputs, content \in ContentInputs,
        upsert_ok \in BOOLEAN :
       LET status == handle_file_upload(f, ns, content, upsert_ok) IN
       /\ upload' = [called |-> TRUE, filename |-> f, namespace |-> ns, content |-> content,
                     status |-> status,
                     ready |-> PineconeIsReady,
                     reached |-> UploadReaches(f, ns, content),
                     result |-> upload_text_file(content, upsert_ok)]
       /\ index_vectors' = IF status = "200"
                             THEN index_vectors \cup UploadVectors(content, ns, f)
                             ELSE index_vectors
  /\ UNCHANGED <<memVars, db_connected, chat_messages, turn, routed, retrieved,
                 svcVars>>

\* ---------------------------------------------------------- save_user_data
SaveUserDataCatches(exc) == exc \in {"AttributeError", "Exception"}

\* the vector save_user_data upserts into the user_summary namespace
ProfileVector(user_id) ==
  [id |-> <<"user_", user_id>>, namespace |-> "user_summary", text |-> "profile",
   source |-> user_id, type |-> "profile"]

\* variant: no readiness test, the upsert is always made
save_user_data_unchecked(user_id, upsert_ok) ==
  [accessed |-> TRUE, vectors |-> {ProfileVector(user_id)}, raised |-> FALSE]

\* save_user_data: whether it used the index, the vectors it stored and
\* whether an exception leaves it
save_user_data(user_id, upsert_ok) ==
  IF ~PineconeIsReady THEN [accessed |-> FALSE, vectors |-> {}, raised |-> FALSE]
  ELSE IF ~upsert_ok
    THEN [accessed |-> TRUE, vectors |-> {}, raised |-> ~SaveUserDataCatches("Exception")]
    ELSE [accessed |-> TRUE, vectors |-> {ProfileVector(user_id)}, raised |-> FALSE]

\* a caller evaluates save_user_data(user_id, user_data), once in a behaviour
SaveUserData ==
  /\ ~profile_save.called
  /\ \E id \in UserIdInputs, upsert_ok \in BOOLEAN :
       LET r == save_user_data(id, upsert_ok) IN
       /\ profile_save' = [called |-> TRUE, user_id |-> id, ready |-> PineconeIsReady,
                           accessed |-> r.accessed, raised |-> r.raised]
       /\ index_vectors' = index_vectors \cup r.vectors
  /\ UNCHANGED <<memVars, db_connected, chat_messages, turn, routed, retrieved, upload,
                 sleeps, pinecone_init, groq_initialized, generations, setup, onbVars>>

\* ------------------------------------- generate_response_with_full_context
RecentLimit == 6    \* redis_chat[-6:]

\* dict.get(key, default)
Get(d, key, default) == IF key \in DOMAIN d THEN d[key] ELSE default

\* the words of the rules of _fallback_response, in the order of its tests
FallbackRules ==
  <<[template |-> "health",
     words |-> {<<"s", "i", "c", "k">>, <<"h", "e", "a", "l", "t", "h">>, <<"v", "e", "t">>}],
    [template |-> "nutrition",
     words |-> {<<"f", "o", "o", "d">>, <<"n", "u", "t", "r", "i", "t", "i", "o", "n">>}],
    [template |-> "grooming",
     words |-> {<<"g", "r", "o", "o", "m">>, <<"b", "a", "t", "h">>}]>>

\* the f-string a rule returns: its template and the names it puts in
FallbackText(template, user_name, pet_name) ==
  [template |-> template,
   user_name |-> IF template \in {"health", "default"} THEN user_name ELSE "",
   pet_name |-> pet_name]

_fallback_response(user_message, user_data) ==
  LET pet_name == Get(user_data, "pet_name", "your pet")
      user_name == Get(user_data, "user_name", "there")
      query_lower == ToLower(user_message)
      fired == {i \in 1..Len(FallbackRules) : Fires(FallbackRules[i].words, query_lower)}
  IN  IF fired = {} THEN FallbackText("default", user_name, pet_name)
      ELSE FallbackText(FallbackRules[CHOOSE i \in fired : \A j \in fired : i <= j].template,
                        user_name, pet_name)

\* _build_system_prompt: the names, the sections with retrieved context and
\* the number of session messages it puts into the prompt
_build_system_prompt(user_data, redis_chat, vector_context) ==
  [user_name |-> Get(user_data, "user_name", "there"),
   pet_name |-> Get(user_data, "pet_name", "your pet"),
   sections |-> {ns \in {"user_history", "health_data", "product_data", "grooming_data",
                         "company_data"} : Get(vector_context, ns, <<>>) # <<>>},
   session |-> Len(redis_chat)]

\* redis_chat[-6:] if len(redis_chat) > 6 else redis_chat
RecentChat(redis_chat) ==
  IF Len(redis_chat) > RecentLimit
    THEN SubSeq(redis_chat, Len(redis_chat) - RecentLimit + 1, Len(redis_chat))
    ELSE redis_chat

\* the user and assistant messages of one stored turn
TurnPair(chat_msg) ==
  <<[role |-> "user", content |-> Get(chat_msg, "user_message", <<>>)],
    [role |-> "assistant", content |-> Get(chat_msg, "marshee_response", <<>>)]>>

RECURSIVE PairsOf(_)
PairsOf(turns) == IF turns = <<>> THEN <<>> ELSE TurnPair(Head(turns)) \o PairsOf(Tail(turns))

\* the messages list handed to client.chat.completions.create
BuildMessages(user_message, user_data, redis_chat, vector_context) ==
  LET recent_chat == RecentChat(redis_chat)
  IN  <<[role |-> "system",
         content |-> _build_system_prompt(user_data, redis_chat, vector_context)]>>
      \o PairsOf(SubSeq(recent_chat, 1, Len(recent_chat) - 1))
      \o <<[role |-> "user", content |-> user_message]>>

\* variant: the fallback text also tells how long the session is
generate_response_sessionAware(initialized, user_message, user_data, redis_chat, vector_context, completion) ==
  IF initialized /\ completion.ok
    THEN [text |-> [template |-> "completion", user_name |-> "", pet_name |-> completion.text],
          fallback |-> FALSE,
          messages |-> BuildMessages(user_message, user_data, redis_chat, vector_context)]
    ELSE [text |-> [_fallback_response(user_message, user_data) EXCEPT
                      !.user_name = IF redis_chat = <<>> THEN @ ELSE ""],
          fallback |-> TRUE,
          messages |-> IF initialized
                         THEN BuildMessages(user_message, user_data, redis_chat, vector_context)
                         ELSE <<>>]

\* generate_response_with_full_context: the text returned, whether it is the
\* fallback, and the messages handed to the client (none when not initialized)
generate_response_with_full_context(initialized, user_message, user_data, redis_chat, vector_context, completion) ==
  IF initialized /\ completion.ok
    THEN [text |-> [template |-> "completion", user_name |-> "", pet_name |-> completion.text],
          fallback |-> FALSE,
          messages |-> BuildMessages(user_message, user_data, redis_chat, vector_context)]
    ELSE [text |-> _fallback_response(user_message, user_data),
          fallback |-> TRUE,
          messages |-> IF initialized
                         THEN BuildMessages(user_message, user_data, redis_chat, vector_context)
                         ELSE <<>>]

\* GroqService.initialize succeeding (a failed one leaves the flag False)
GroqInitialize ==
  /\ ~groq_initialized
  /\ groq_initialized' = TRUE
  /\ UNCHANGED <<memVars, db_connected, chat_messages, index_vectors, turn, routed,
                 retrieved, upload, sleeps, pinecone_init, profile_save, generations, setup,
                 onbVars>>

\* the inputs of a generation call
GenMessages ==
  {<<"I", "s", " ", "m", "y", " ", "d", "o", "g", " ", "S", "I", "C", "K", "?">>,
   <<"b", "a", "t", "h", " ", "o", "r", " ", "f", "o", "o", "d", "?">>}

ProfileInputs ==
  {[k \in {"pet_name"} |-> "Rex"], [k \in {"user_name", "pet_name"} |-> IF k = "pet_name" THEN "Rex" ELSE "Asha"]}

\* the session buffer in chronological order, as get_chat_history returns it
ChatOfLen(n) ==
  [i \in 1..n |-> [k \in {"user_message", "marshee_response"} |->
                     IF k = "user_message" THEN <<"q", i>> ELSE <<"a", i>>]]

ChatInputs == {ChatOfLen(n) : n \in {0, 1, MaxChatLen}}

ContextInputs ==
  {EmptyMapping, [ns \in {"user_summary", "health_data"} |-> <<Match("a", 90)>>]}

\* what client.chat.completions.create does: it raises, or returns a text
CompletionInputs == {[ok |-> FALSE, text |-> ""], [ok |-> TRUE, text |-> "reply"]}

\* a caller evaluates generate_response_with_full_context
Generate ==
  /\ Len(generations) < MaxCalls
  /\ \E um \in GenMessages, ud \in ProfileInputs, chat_in \in ChatInputs,
        ctx \in ContextInputs, completion \in CompletionInputs :
       LET r == generate_response_with_full_context(groq_initialized, um, ud, chat_in, ctx,
                                                    completion)
       IN  generations' = Append(generations,
             [initialized |-> groq_initialized, user_message |-> um, user_data |-> ud,
              redis_chat |-> chat_in, vector_context |-> ctx, completion |-> completion,
              text |-> r.text, fallback |-> r.fallback, messages |-> r.messages])
  /\ UNCHANGED <<memVars, db_connected, chat_messages, index_vectors, turn, routed,
                 retrieved, upload, sleeps, pinecone_init, profile_save, groq_initialized,
                 setup, onbVars>>

\* ------------------------------------------------ the end of the onboarding
\* float(value.strip()) of the weight texts a request carries, in tenths of
\* a kilogram; Nil where float raises ValueError
WeightOf == ("4.5" :> 45) @@ ("100" :> 1000) @@ ("0.4" :> 4) @@ ("heavy" :> Nil)

WeightInputs == DOMAIN WeightOf

\* stages.pet_weight.validate_input: 0.5 <= weight <= 100
validate_input(value) == WeightOf[value] # Nil /\ 5 <= WeightOf[value] /\ WeightOf[value] <= 1000

\* the chat document the completing request saves
SetupChatDocument(id, um) ==
  [firestore_id |-> id, stage_id |-> "pet_weight", user_message |-> um,
   marshee_response |-> "Perfect!"]

\* marshee_interaction for the submission of the last stage (pet_weight) by
\* a user whose setup is not complete: what it answers, whether it has set
\* initial_setup_complete, and the vectors it has handed to the index
marshee_interaction_complete(id, weight, insert_ok) ==
  IF Len(id) < MinFirestoreIdLen THEN [status |-> "400", complete |-> FALSE, vectors |-> {}]
  ELSE IF get_database = None THEN [status |-> "500", complete |-> FALSE, vectors |-> {}]
  ELSE IF ~validate_input(weight) THEN [status |-> "200", complete |-> FALSE, vectors |-> {}]
  ELSE IF save_chat(insert_ok) # None THEN [status |-> "500", complete |-> TRUE, vectors |-> {}]
  ELSE [status |-> "200", complete |-> TRUE, vectors |-> {}]

\* onboarding_handler.process_stage and complete_setup for the same
\* submission: the call of pinecone_service.save_user_profile follows
\* complete_user_setup, and nothing in the handler catches what it raises
complete_setup(id, weight, insert_ok) ==
  IF get_database = None THEN [status |-> "AttributeError", complete |-> FALSE, vectors |-> {}]
  ELSE IF ~validate_input(weight) THEN [status |-> "200", complete |-> FALSE, vectors |-> {}]
  ELSE IF "save_user_profile" \notin PineconeServiceMethods
    THEN [status |-> "AttributeError", complete |-> TRUE, vectors |-> {}]
  ELSE IF save_chat(insert_ok) # None
    THEN [status |-> save_chat(insert_ok), complete |-> TRUE,
          vectors |-> save_user_data(id, TRUE).vectors]
    ELSE [status |-> "200", complete |-> TRUE, vectors |-> save_user_data(id, TRUE).vectors]

\* the record of a completing request and its effects
SetupDone(via, id, weight, r) ==
  /\ setup' = [called |-> TRUE, via |-> via, firestore_id |-> id, user_message |-> weight,
               ready |-> PineconeIsReady, complete |-> r.complete, status |-> r.status]
  /\ index_vectors' = index_vectors \cup r.vectors
  /\ chat_messages' = IF r.status = "200" /\ r.complete
                         THEN chat_messages \cup {SetupChatDocument(id, weight)}
                         ELSE chat_messages
  /\ UNCHANGED <<memVars, db_connected, turn, routed, retrieved, upload, sleeps,
                 pinecone_init, profile_save, groq_initialized, generations, onbVars>>

\* a request submits the last stage to POST /api/v1/marshee, once in a behaviour
CompleteSetupMain ==
  /\ ~setup.called
  /\ \E id \in UserIdInputs, weight \in WeightInputs, insert_ok \in BOOLEAN :
       SetupDone("marshee_interaction", id, weight,
                 marshee_interaction_complete(id, weight, insert_ok))

\* a caller hands the same submission to handle_onboarding
CompleteSetupHandler ==
  /\ ~setup.called
  /\ \E id \in UserIdInputs, weight \in WeightInputs, insert_ok \in BOOLEAN :
       SetupDone("handle_onboarding", id, weight, complete_setup(id, weight, insert_ok))

\* ---------------------------------------------------- the onboarding stages
\* stages.STAGE_MODULES
STAGE_MODULES ==
  <<"user_name", "pet_name", "pet_type", "pet_gender", "pet_breed", "pet_age", "pet_weight">>

\* app.config.TOTAL_STAGES
TOTAL_STAGES == 7

\* the STAGE_CONFIG of every module of the stages package: its stage_number
\* and its next_stage
STAGE_CONFIG_skipGender ==
  [user_name  |-> [stage_number |-> 1, next_stage |-> "pet_name"],
   pet_name   |-> [stage_number |-> 2, next_stage |-> "pet_type"],
   pet_type   |-> [stage_number |-> 3, next_stage |-> "pet_breed"],
   pet_gender |-> [stage_number |-> 4, next_stage |-> "pet_breed"],
   pet_breed  |-> [stage_number |-> 5, next_stage |-> "pet_age"],
   pet_age    |-> [stage_number |-> 5, next_stage |-> "pet_weight"],
   pet_weight |-> [stage_number |-> 7, next_stage |-> "complete"]]

STAGE_CONFIG ==
  [user_name  |-> [stage_number |-> 1, next_stage |-> "pet_name"],
   pet_name   |-> [stage_number |-> 2, next_stage |-> "pet_type"],
   pet_type   |-> [stage_number |-> 3, next_stage |-> "pet_gender"],
   pet_gender |-> [stage_number |-> 4, next_stage |-> "pet_breed"],
   pet_breed  |-> [stage_number |-> 5, next_stage |-> "pet_age"],
   pet_age    |-> [stage_number |-> 5, next_stage |-> "pet_weight"],
   pet_weight |-> [stage_number |-> 7, next_stage |-> "complete"]]

\* stages.load_stage: whether importing stages.<stage_id> gives a module
load_stage(stage_id) == stage_id \in DOMAIN STAGE_CONFIG

\* stages.get_stage_config of a stage whose module loads
get_stage_config(stage_id) == STAGE_CONFIG[stage_id]

\* the answers a request carries for each stage, and the texts of a request
\* that names a stage the package does not have
StageAnswers ==
  [user_name  |-> {"Asha", "A"},
   pet_name   |-> {"Bruno", " "},
   pet_type   |-> {"Dog", "bird"},
   pet_gender |-> {"female", "it"},
   pet_breed  |-> {"pug", "poodle"},
   pet_age    |-> {"3", "30"},
   pet_weight |-> {"4.5", "heavy"}]

\* len(value.strip()) of the name texts
StrippedLen == ("Asha" :> 4) @@ ("A" :> 1) @@ ("Bruno" :> 5) @@ (" " :> 0)

\* value.strip().lower() of the option texts
Lowered ==
  ("Dog" :> "dog") @@ ("bird" :> "bird") @@ ("female" :> "female") @@ ("it" :> "it") @@
  ("pug" :> "pug") @@ ("poodle" :> "poodle")

\* float(value.strip()) of the age texts, in tenths of a year
AgeOf == ("3" :> 30) @@ ("30" :> 300)

\* the breeds of pet_breed.STAGE_CONFIG["options"]
AllBreeds ==
  {"labrador", "german_shepherd", "golden_retriever", "indie", "pomeranian", "beagle",
   "rottweiler", "chihuahua", "pug", "rajapalayam", "persian", "siamese", "maine_coon",
   "british_shorthair", "bengal", "ragdoll", "russian_blue", "scottish_fold", "bombay",
   "indian_billi"}

\* stages.validate_stage_input: validate_input of the stage's module
validate_stage_input(stage_id, value) ==
  CASE stage_id = "user_name"  -> 2 <= StrippedLen[value] /\ StrippedLen[value] <= 50
    [] stage_id = "pet_name"   -> 1 <= StrippedLen[value] /\ StrippedLen[value] <= 30
    [] stage_id = "pet_type"   -> Lowered[value] \in {"dog", "cat"}
    [] stage_id = "pet_gender" -> Lowered[value] \in {"male", "female"}
    [] stage_id = "pet_breed"  -> Lowered[value] \in AllBreeds
    [] stage_id = "pet_age"    -> 10 <= AgeOf[value] /\ AgeOf[value] <= 250
    [] stage_id = "pet_weight" -> validate_input(value)

\* models.UserData(firestore_id): the document get_user inserts for a new id
UserData(id) ==
  [firestore_id |-> id, user_name |-> None, pet_name |-> None, pet_type |-> None,
   pet_gender |-> None, pet_breed |-> None, pet_age |-> None, pet_weight |-> None,
   weight_assessment |-> None, current_stage |-> "user_name", completed_stages |-> <<>>,
   initial_setup_complete |-> FALSE]

\* user_service.get_user: the document found, or the new one
get_user(id) == IF id \in DOMAIN users THEN users[id] ELSE UserData(id)

\* the document after update_user has $set update_data for a submission:
\* the stage's field, current_stage and, the first time, completed_stages
update_data(user, stage_id, user_message) ==
  [[user EXCEPT ![stage_id] = user_message] EXCEPT
     !.current_stage = get_stage_config(stage_id).next_stage,
     !.completed_stages = IF stage_id \in Range(user.completed_stages)
                            THEN user.completed_stages
                            ELSE Append(user.completed_stages, stage_id)]

\* the last stage's further writes: process_weight_submission saves the
\* assessment, then update_user marks the setup complete
mark_complete(user) ==
  [user EXCEPT !.weight_assessment =
                  IF None \in {user.pet_breed, user.pet_gender, user.pet_age}
                    THEN "incomplete" ELSE "assessed",
               !.initial_setup_complete = TRUE,
               !.current_stage = "main_conversation"]

\* the users document a submission leaves: update_user is called only past
\* the validation branch
Stored_unvalidated(user, stage_id, user_message, valid) ==
  IF get_stage_config(stage_id).next_stage = "complete"
    THEN mark_complete(update_data(user, stage_id, user_message))
    ELSE update_data(user, stage_id, user_message)

Stored(user, stage_id, user_message, valid) ==
  IF ~valid THEN user
  ELSE IF get_stage_config(stage_id).next_stage = "complete"
    THEN mark_complete(update_data(user, stage_id, user_message))
    ELSE update_data(user, stage_id, user_message)

\* the chat document a stage submission saves
StageChatDocument(id, stage_id, um) ==
  [firestore_id |-> id, stage_id |-> stage_id, user_message |-> um,
   marshee_response |-> "stage"]

\* the APIResponse of the onboarding flow, and the HTTP status beside it
StageResponse(status, success, flow_type, stage_id, stage_number, total_stages, next_stage) ==
  [status |-> status, success |-> success, flow_type |-> flow_type, stage_id |-> stage_id,
   stage_number |-> stage_number, total_stages |-> total_stages, next_stage |-> next_stage]

HTTPError(status) == StageResponse(status, FALSE, "", "", 0, 0, "")

\* the response that presents a stage
StagePrompt(success, stage_id) ==
  StageResponse("200", success, "initial", stage_id, get_stage_config(stage_id).stage_number,
                TOTAL_STAGES, get_stage_config(stage_id).next_stage)

MainResponse == StageResponse("200", TRUE, "main", "main_conversation", 1, 0, "")

\* the requests a client sends: a stage with one of its answers, no stage,
\* a stage the package does not have
OnboardRequests ==
  UNION {{[stage_id |-> s, user_message |-> m] : m \in StageAnswers[s]} :
                s \in DOMAIN StageAnswers}
  \cup {[stage_id |-> "", user_message |-> ""],
        [stage_id |-> "pet_color", user_message |-> "red"]}

\* the requests of a client whose setup is complete
ReturningRequests ==
  {[stage_id |-> "", user_message |-> ""], [stage_id |-> "", user_message |-> "How is Bruno?"],
   [stage_id |-> "pet_weight", user_message |-> "4.5"]}

\* main.marshee_interaction for one request: the firestore_id check,
\* get_user, the returning user's welcome, the current stage of a request
\* without stage_id, the validation of a submission, update_user, the
\* completion after the last stage, save_chat (whose insert a connected
\* database accepts) and the except clauses; skips counts the submissions
\* that named another stage than the user's current_stage
StageInteraction ==
  \E id \in UserIdInputs :
   \E request \in IF get_user(id).initial_setup_complete THEN ReturningRequests
                   ELSE OnboardRequests :
    LET user == get_user(id)
        stage_id == request.stage_id
        um == request.user_message
        submitted == /\ Len(id) >= MinFirestoreIdLen
                     /\ get_database # None
                     /\ ~user.initial_setup_complete
                     /\ stage_id # ""
                     /\ load_stage(stage_id)
        valid == submitted /\ validate_stage_input(stage_id, um)
        skipped == submitted /\ stage_id # user.current_stage
        insert_ok == TRUE
        stored == IF submitted THEN Stored(user, stage_id, um, valid) ELSE user
        saves == IF user.initial_setup_complete THEN um # "" ELSE valid
        document == IF user.initial_setup_complete
                      THEN ChatDocument(id, um, "Welcome back! How can I help?")
                      ELSE StageChatDocument(id, stage_id, um)
        response ==
          IF Len(id) < MinFirestoreIdLen THEN HTTPError("400")
          ELSE IF get_database = None THEN HTTPError("500")
          ELSE IF saves /\ save_chat(insert_ok) # None THEN HTTPError("500")
          ELSE IF user.initial_setup_complete THEN MainResponse
          ELSE IF stage_id = "" THEN
            IF load_stage(user.current_stage) THEN StagePrompt(TRUE, user.current_stage)
            ELSE HTTPError("400")
          ELSE IF ~load_stage(stage_id) THEN HTTPError("400")
          ELSE IF ~valid THEN StagePrompt(FALSE, stage_id)
          ELSE IF stored.initial_setup_complete THEN MainResponse
          ELSE StagePrompt(TRUE, stored.current_stage)
    IN  /\ skipped => interaction.skips < MaxSkips
        /\ users' = IF Len(id) < MinFirestoreIdLen \/ get_database = None THEN users
                    ELSE IF id \in DOMAIN users THEN [users EXCEPT ![id] = stored]
                    ELSE users @@ (id :> stored)
        /\ chat_messages' = IF saves /\ get_database # None /\ save_chat(insert_ok) = None
                               THEN chat_messages \cup {document}
                               ELSE chat_messages
        /\ interaction' =
             [called |-> TRUE, firestore_id |-> id, stage_id |-> stage_id,
              submitted |-> submitted, valid |-> valid,
              skips |-> interaction.skips + (IF skipped THEN 1 ELSE 0),
              response |-> response]
        /\ UNCHANGED <<memVars, db_connected, index_vectors, turn, routed, retrieved, upload,
                       sleeps, pinecone_init, profile_save, groq_initialized, generations,
                       setup>>

\* ------------------------------------------------------------ specifications
\* a request task calls add_message
Request ==
  /\ nAppends + events < MaxEvents
  /\ \E p \in Handlers, u \in UserIdInputs, um \in UserMessageInputs, mr \in ResponseInputs :
       AddMessage(p, u, um, mr)
  /\ UNCHANGED ctxVars

\* the single request task of SpecSeq calls add_message
RequestSeq ==
  /\ nAppends < MaxSeqAppends
  /\ \E u \in UserIdInputs, um \in UserMessageInputs, mr \in ResponseInputs :
       AddMessage("h1", u, um, mr)
  /\ UNCHANGED ctxVars

Next ==
  \/ RedisDown
  \/ RedisBack
  \/ \E d \in TickSteps : Tick(d)
  \/ RedisInitialize
  \/ PineconeInitialize
  \/ Request
  \/ \E p \in Handlers : AddMessageCount(p)
  \/ \E p \in Handlers : GetCurrentMessageCount(p)
  \/ \E p \in Procs : FlushRead(p)
  \/ \E p \in Procs : FlushSave(p)
  \/ \E p \in Procs : FlushClear(p)
  \/ \E s \in Sweepers : SweepStart(s)
  \/ \E s \in Sweepers : SweepGet(s)
  \/ \E s \in Sweepers : SweepLlen(s)

\* any interleaving of request tasks, the idle sweep, outages and the clock
Spec == (Init \/ InitLoaded) /\ [][Next]_vars

\* one request task at a time, no sweep, no outage after start-up, no long pause
NextSeq ==
  \/ RedisInitialize
  \/ PineconeInitialize
  \/ RequestSeq
  \/ AddMessageCount("h1")
  \/ GetCurrentMessageCount("h1")
  \/ FlushRead("h1")
  \/ FlushSave("h1")
  \/ FlushClear("h1")

SpecSeq == Init /\ [][NextSeq]_vars

\* the single request task of SpecOutage calls add_message
RequestOne ==
  /\ nAppends + events < MaxEvents
  /\ \E u \in UserIdInputs, um \in UserMessageInputs, mr \in ResponseInputs :
       AddMessage("h1", u, um, mr)
  /\ UNCHANGED ctxVars

\* one request task at a time on a buffer one turn short of the threshold,
\* with outages of the Redis server at any point
NextOutage ==
  \/ RedisDown
  \/ RedisBack
  \/ PineconeInitialize
  \/ RequestOne
  \/ AddMessageCount("h1")
  \/ GetCurrentMessageCount("h1")
  \/ FlushRead("h1")
  \/ FlushSave("h1")
  \/ FlushClear("h1")

SpecOutage == InitLoaded /\ [][NextOutage]_vars

\* calls that run one after the other, as in one event loop with the
\* blocking Redis client: a request starts only while no sweep runs, a sweep
\* only while no request runs, and long pauses fall between calls
RequestAlone ==
  /\ \A s \in Sweepers : pc[s] = "idle"
  /\ RequestOne

SweepAlone ==
  /\ \A p \in Handlers : pc[p] = "idle"
  /\ SweepStart("s1")

Pause ==
  /\ \A p \in Procs : pc[p] = "idle"
  /\ \E d \in TickSteps : Tick(d)

NextSweep ==
  \/ PineconeInitialize
  \/ RedisDown
  \/ RedisBack
  \/ Pause
  \/ RequestAlone
  \/ AddMessageCount("h1")
  \/ GetCurrentMessageCount("h1")
  \/ SweepAlone
  \/ SweepGet("s1")
  \/ SweepLlen("s1")
  \/ \E p \in {"h1", "s1"} : FlushRead(p)
  \/ \E p \in {"h1", "s1"} : FlushSave(p)
  \/ \E p \in {"h1", "s1"} : FlushClear(p)

SpecSweep == InitLoaded /\ [][NextSweep]_vars

\* the same calls over two buffers, one of them about to become idle
SpecSweepTwo == InitTwo /\ [][NextSweep]_vars

\* a buffer that gets no further message: the sweep and the clock only
SweepStep ==
  \/ SweepStart("s1")
  \/ SweepGet("s1")
  \/ SweepLlen("s1")
  \/ FlushRead("s1")
  \/ FlushSave("s1")
  \/ FlushClear("s1")

TimePasses == \E d \in TickSteps : LiveTick(d)

NextLive ==
  \/ PineconeInitialize
  \/ TimePasses
  \/ SweepStep

SpecLive == InitLoaded /\ [][NextLive]_vars /\ WF_vars(TimePasses) /\ WF_vars(SweepStep)

\* calls of the namespace router on any query text
NextRoute == SelectNamespaces

SpecRoute == Init /\ [][NextRoute]_vars

\* calls of get_context before and after the Pinecone client is initialized
NextContext ==
  \/ PineconeInitialize
  \/ GetContext

SpecContext == Init /\ [][NextContext]_vars

\* one request task handling conversation turns, from a fresh start or on a
\* buffer one turn short of the threshold
NextTurn ==
  \/ RedisInitialize
  \/ PineconeInitialize
  \/ ConnectToMongo
  \/ TurnContext("h1")
  \/ TurnTrack("h1")
  \/ AddMessageCount("h1")
  \/ FlushRead("h1")
  \/ FlushSave("h1")
  \/ FlushClear("h1")
  \/ GetCurrentMessageCount("h1")
  \/ TurnSave("h1")
  \/ MarsheeInteraction("h1")

SpecTurn == (Init \/ InitLoaded) /\ [][NextTurn]_vars

\* uploads before and after the Pinecone client is initialized
NextUpload ==
  \/ PineconeInitialize
  \/ HandleFileUpload

SpecUpload == Init /\ [][NextUpload]_vars

\* start-up: both initialize calls, with outages of the Redis server
NextStartup ==
  \/ RedisInitialize
  \/ PineconeInitialize
  \/ PineconeInitializeFails
  \/ RedisDown
  \/ RedisBack

SpecStartup == Init /\ [][NextStartup]_vars

\* no call that reads or writes the index has been made in this behaviour
StoreUntouched ==
  /\ ~retrieved.called
  /\ ~upload.called
  /\ ~profile_save.called
  /\ nAppends = 0

\* the four paths to the index, one call in a behaviour: get_context,
\* save_user_data, handle_file_upload, and the flush of a request that
\* stores the tenth turn
NextStore ==
  \/ PineconeInitialize
  \/ StoreUntouched /\ GetContext
  \/ StoreUntouched /\ SaveUserData
  \/ StoreUntouched /\ HandleFileUpload
  \/ StoreUntouched /\ RequestOne
  \/ AddMessageCount("h1")
  \/ GetCurrentMessageCount("h1")
  \/ FlushRead("h1")
  \/ FlushSave("h1")
  \/ FlushClear("h1")

SpecStore == InitLoaded /\ [][NextStore]_vars

\* generation calls, before and after GroqService.initialize
NextGenerate ==
  \/ GroqInitialize
  \/ Generate

SpecGenerate == Init /\ [][NextGenerate]_vars

\* the request that completes the initial setup, and a direct caller of
\* save_user_data
NextSetup ==
  \/ ConnectToMongo
  \/ PineconeInitialize
  \/ CompleteSetupMain
  \/ CompleteSetupHandler
  \/ SaveUserData

SpecSetup == Init /\ [][NextSetup]_vars

\* the requests of the onboarding flow, in any order a client sends them
NextOnboard ==
  \/ ConnectToMongo
  \/ StageInteraction

SpecOnboard == Init /\ [][NextOnboard]_vars

\* ------------------------------------------------------------- properties
\* the turns in a user's buffer
Buffered(u) == {Loads(chat[u][i]) : i \in 1..Len(chat[u])}

\* the turns of the snapshots of the Summaries written to the semantic store
Summarized == UNION {Range(r.chat_history) : r \in semantic_store}

\* the tasks between create_and_save_summary's read of the buffer and its clear
InFlushWindow == {p \in Procs : pc[p] \in {"flush_save", "flush_clear"}}

\* C1: every turn an append stored is, at every later state, still in the
\* buffer, or in the snapshot of a flush whose Summary was written, or was
\* removed by TTL expiry.
C1_NoTurnDropped ==
  \A m \in appended : m \in Buffered(m.user_id) \/ m \in Summarized \/ m \in expired

\* C2: at most one execution of create_and_save_summary is between its read
\* of the buffer and its clear of it.
C2_AtMostOneFlush == Cardinality(InFlushWindow) <= 1

\* C3: every snapshot a flush takes past its write step has exactly one
\* Summary in the semantic store, no turn is in the snapshots of two
\* Summaries, and the buffer a finished flush cleared holds none of the
\* summarized turns the flush saw.
C3_OneSummaryPerSnapshot ==
  /\ \A p \in Procs : pc[p] = "flush_clear" =>
        Cardinality({r \in semantic_store : r.chat_history = chat_history[p]}) = 1
  /\ \A r1, r2 \in semantic_store :
        r1 # r2 => Range(r1.chat_history) \cap Range(r2.chat_history) = {}
  /\ \A u \in Users : lastFlush = "cleared" /\ InFlushWindow = {} =>
        Buffered(u) \cap Summarized = {}

\* C4: a flush whose Summary write raises returns with the buffer holding
\* exactly the turns, in the order, that the flush read, and with the
\* activity marker still present.
C4_FailedWriteKeepsBuffer ==
  [][\A p \in Procs :
       (pc[p] = "flush_save" /\ pc'[p] # "flush_save" /\ lastFlush' = "save_raised") =>
         /\ chat' = chat
         /\ ParseMessages(chat'[uid[p]]) = chat_history[p]
         /\ activity' = activity
         /\ activity'[uid[p]] # Nil]_vars

C4_Witness ==
  /\ lastFlush = "save_raised"
  /\ pc["h1"] = "count"
  /\ Len(chat["user_1"]) = SummaryThreshold
  /\ activity["user_1"] # Nil

\* C5: a flush reaches its clear of the buffer only with its Summary write
\* completed, whatever the readiness of the semantic store.
C5_ClearOnlyAfterWrite == \A p \in Procs : pc[p] = "flush_clear" => wrote[p]

\* C6: the parsed read of a buffer is the sequence of turns appended since
\* the last clear, oldest first, and that sequence is the chat_history every
\* read of create_and_save_summary hands on.
C6_ChronologicalRead ==
  /\ [](\A u \in Users : ParseMessages(chat[u]) = appendLog[u])
  /\ [][\A p \in Procs : (pc[p] = "flush_lrange" /\ pc'[p] = "flush_save") =>
          chat_history'[p] = appendLog[uid[p]]]_vars

C6_Witness ==
  \E p \in Procs :
    /\ pc[p] = "flush_save"
    /\ Len(chat_history[p]) >= SummaryThreshold
    /\ chat_history[p] = appendLog[uid[p]]

\* C7: of 10 successive add_message calls on an empty buffer the first 9
\* invoke no flush, the 10th invokes exactly one, and once that call has
\* returned the buffer is empty.
C7_TenAppendsOneFlush ==
  /\ nAppends < SummaryThreshold => thresholdFlushAt = <<>>
  /\ (nAppends = SummaryThreshold /\ pc["h1"] \in {"count", "idle"}) =>
        /\ thresholdFlushAt = <<SummaryThreshold>>
        /\ chat["user_1"] = <<>>

\* C8: no step of a flush whose snapshot holds fewer than 5 turns changes
\* the buffer, the activity marker or the semantic store.
C8_SmallFlushDoesNothing ==
  [][\A p \in Procs :
       (pc[p] \in {"flush_save", "flush_clear"} /\ pc'[p] # pc[p]
          /\ Len(chat_history[p]) < 5) =>
         /\ chat' = chat
         /\ activity' = activity
         /\ semantic_store' = semantic_store]_vars

\* C9: once a user's 10th successive message has been handled, the semantic
\* store holds a Summary of that user's 10 turns and the buffer is empty.
C9_EndToEnd ==
  (nAppends = SummaryThreshold /\ pc["h1"] = "idle") =>
     /\ \E r \in semantic_store :
          r.user_id = "user_1" /\ r.summary.total_messages = SummaryThreshold
     /\ get_current_message_count("user_1").value = 0

\* C10: no exception leaves add_message, get_current_message_count,
\* create_and_save_summary or check_inactive_users; while the Redis service
\* is not initialized or the server does not answer, the count is 0 and no
\* step of theirs changes a buffer, an activity marker or the semantic store.
Degraded == ~RedisIsReady \/ ~redisUp

C10_DegradesToNoOp ==
  /\ [](escaped = {})
  /\ [](\A p \in Handlers : (pc[p] = "count" /\ Degraded) =>
          get_current_message_count(uid[p]).value = 0)
  /\ [][(Degraded /\ now' = now) =>
          (chat' = chat /\ activity' = activity /\ semantic_store' = semantic_store)]_vars

C10_Witness ==
  /\ redis_initialized
  /\ ~redisUp
  /\ lastFlush \in {"read_raised", "clear_raised"}
  /\ \E p \in Handlers : pc[p] = "count"

\* C11: no exception leaves add_message, and the step by which the flush
\* that add_message invoked fails (at its read, its Summary write or its clear)
\* returns into add_message with the turn that call appended still at the
\* head of the buffer.
FlushSteps == {"flush_lrange", "flush_save", "flush_clear"}

FlushFailures == {"read_raised", "save_raised", "clear_raised"}

C11_FlushFailureNotSurfaced ==
  /\ []("add_message" \notin escaped /\ "create_and_save_summary" \notin escaped)
  /\ [][(pc["h1"] \in FlushSteps /\ pc'["h1"] \notin FlushSteps
           /\ lastFlush' \in FlushFailures) =>
          /\ pc'["h1"] = "count"
          /\ appendLog[uid["h1"]] # <<>>
          /\ chat'[uid["h1"]] # <<>>
          /\ Head(chat'[uid["h1"]]) =
               Dumps(appendLog[uid["h1"]][Len(appendLog[uid["h1"]])])]_vars

C11_Witness ==
  /\ lastFlush = "clear_raised"
  /\ pc["h1"] = "count"
  /\ thresholdFlushAt # <<>>
  /\ Len(chat["user_1"]) >= SummaryThreshold

\* C15: the namespace list select_namespaces returns contains user_history,
\* whatever the query; for "my dog has a skin infection" it contains
\* health_data too.
C15_AlwaysUserHistory ==
  routed # NotRouted =>
    /\ "user_history" \in Range(routed.namespaces)
    /\ routed.query = SkinInfectionQuery => "health_data" \in Range(routed.namespaces)

\* C16: the list select_namespaces returns has no duplicates and holds a
\* knowledge namespace; with no keyword rule fired it is the user namespace
\* followed by health_data, otherwise health_data is in it exactly when the
\* health rule fired.
KnowledgeNamespaces == {"health_data", "product_data", "grooming_data", "company_data"}

AnyRuleFires(q) ==
  \E words \in {HealthWords, ProductWords, GroomingWords, CompanyWords} :
    Fires(words, ToLower(q))

C16_KnowledgeNamespaceSearched ==
  routed # NotRouted =>
    LET ns == routed.namespaces IN
    /\ \A i, j \in 1..Len(ns) : i # j => ns[i] # ns[j]
    /\ Range(ns) \cap KnowledgeNamespaces # {}
    /\ ~AnyRuleFires(routed.query) => ns = <<"user_summary", "health_data">>
    /\ AnyRuleFires(routed.query) =>
         ("health_data" \in Range(ns) <=> Fires(HealthWords, ToLower(routed.query)))

C16_Witness ==
  /\ routed # NotRouted
  /\ routed.namespaces = <<"user_summary", "product_data", "grooming_data">>

\* C13 as stated: get_context never raises; a namespace whose query failed
\* gets the empty list while every other selected namespace gets its
\* filtered matches; a failed embedding or a failed routing gives the empty
\* mapping.
Isolated ==
  \A ns \in DOMAIN retrieved.responses :
    /\ ns \in DOMAIN retrieved.result
    /\ ~retrieved.responses[ns].ok => retrieved.result[ns] = <<>>
    /\ retrieved.responses[ns].ok =>
         /\ \A i \in 1..Len(retrieved.result[ns]) :
              \E j \in 1..Len(retrieved.responses[ns].matches) :
                /\ retrieved.responses[ns].matches[j].text = retrieved.result[ns][i].text
                /\ retrieved.responses[ns].matches[j].score > MinScore
         /\ \A j \in 1..Len(retrieved.responses[ns].matches) :
              retrieved.responses[ns].matches[j].score > MinScore =>
                \E i \in 1..Len(retrieved.result[ns]) :
                  retrieved.result[ns][i].text = retrieved.responses[ns].matches[j].text

C13_NeverRaisesIsolated ==
  retrieved.called =>
    /\ ~retrieved.raised
    /\ Isolated
    /\ (retrieved.embedding.zero \/ retrieved.query = NoneQuery) =>
         retrieved.result = EmptyMapping

\* C13 amended: as above, except that only a failed routing (or a client that
\* is not ready) gives the empty mapping; after a failed embedding the zero
\* vector is queried and every selected namespace has its entry.
C13_NeverRaisesIsolatedAmended ==
  retrieved.called =>
    /\ ~retrieved.raised
    /\ Isolated
    /\ (~retrieved.ready \/ retrieved.query = NoneQuery) => retrieved.result = EmptyMapping
    /\ (retrieved.ready /\ retrieved.query # NoneQuery) =>
         DOMAIN retrieved.result = Range(select_namespaces(retrieved.query))

C13_Witness ==
  /\ retrieved.called
  /\ retrieved.ready
  /\ retrieved.embedding.zero
  /\ \E n1, n2 \in DOMAIN retrieved.responses :
       /\ ~retrieved.responses[n1].ok
       /\ retrieved.result[n1] = <<>>
       /\ retrieved.result[n2] # <<>>

\* C14: every item of get_context's output is a match the index returned for
\* that namespace, with a score not below the threshold.
C14_BelowThresholdNeverReturned ==
  retrieved.called =>
    \A ns \in DOMAIN retrieved.result : \A i \in 1..Len(retrieved.result[ns]) :
      /\ retrieved.result[ns][i].score >= MinScore
      /\ \E j \in 1..Len(retrieved.responses[ns].matches) :
           FormatMatch(retrieved.responses[ns].matches[j]) = retrieved.result[ns][i]

C14_Witness ==
  /\ retrieved.called
  /\ \E ns \in DOMAIN retrieved.result :
       /\ Len(retrieved.result[ns]) = 1
       /\ \E j \in 1..Len(retrieved.responses[ns].matches) :
            retrieved.responses[ns].matches[j].score < MinScore

\* C12: with the Pinecone client not ready, the context process_user_message
\* has built holds the user's buffered turns as recent turns and the empty
\* mapping as retrieved snippets, and a response text has been produced.
RecentTurns(args) == IF "recent_turns" \in DOMAIN args THEN args.recent_turns ELSE <<>>

BufferOf(id) == IF id \in Users THEN ParseMessages(chat[id]) ELSE <<>>

C12_NotReadyContext ==
  \A p \in Handlers : (turn[p].stage = "built" /\ ~PineconeIsReady) =>
    /\ turn[p].context = EmptyMapping
    /\ Len(turn[p].marshee_response) > 0
    /\ RecentTurns(turn[p].build_args) = BufferOf(turn[p].firestore_id)

\* C17: a handled user turn that was not refused for its firestore_id
\* answers success with the assistant text, whether or not the database is
\* connected and the insert of the chat document works.
C17_StoreFailureDoesNotBlock ==
  \A p \in Handlers : (turn[p].stage = "done" /\ turn[p].result.status # "400") =>
    /\ turn[p].result.success
    /\ turn[p].result.marshee_response = turn[p].marshee_response
    /\ Len(turn[p].result.marshee_response) > 0

\* C18: an upload with a namespace outside the allowed set, a file name not
\* ending in .txt, an empty file or content that is not UTF-8 is answered
\* with status 400 and writes nothing to the index.
Malformed ==
  \/ upload.namespace \notin Range(ALLOWED_NAMESPACES)
  \/ ~EndsWith(upload.filename, <<".", "t", "x", "t">>)
  \/ upload.content = <<>>
  \/ DecodeFails(upload.content)

C18_MalformedUploadRejected ==
  (upload.called /\ Malformed) => (upload.status = "400" /\ index_vectors = {})

C20_BuffersDoNotLeak == \A u \in Users : (chat[u] # <<>>) ~> (chat[u] = <<>>)

C20_Witness ==
  /\ pinecone_initialized
  /\ lastFlush = "save_raised"
  /\ chat["user_1"] = <<>>
  /\ Cardinality(expired) = PreloadLen

\* ------------------------------------------------- the idle sweep's choice
\* the newest turn of u's buffer is more than the idle threshold old
IdleBuffer(u) ==
  /\ chat[u] # <<>>
  /\ now - Loads(Head(chat[u])).timestamp > InactiveThreshold

\* the activity keys a step of the sweep has finished with
Examined(s) == IF pc'[s] = "idle" THEN todo[s] ELSE todo[s] \ todo'[s]

C22_SweepContinuesAfterFailure ==
  /\ []("check_inactive_users" \notin escaped)
  /\ [][\A s \in Sweepers :
          (pc[s] # "idle" /\ pc'[s] = "idle") =>
             IF pc[s] = "sw_get" THEN Cardinality(todo[s]) = 1 ELSE todo[s] = {}]_vars

\* the Summary write for one user has raised in a run that has gone on to
\* invoke the flush for the other user
C22_Witness ==
  /\ pc["s1"] = "flush_lrange"
  /\ lastFlush = "save_raised"
  /\ failedSnapshot # <<>>
  /\ failedSnapshot[1].user_id # uid["s1"]
  /\ get_last_activity_key(failedSnapshot[1].user_id) \notin todo["s1"]

\* ------------------------------------------------------------ sliding TTL
\* the time of the newest turn of a non-empty buffer
LastAppend(u) == Loads(Head(chat[u])).timestamp

\* C23: every stored append sets the expiry of the buffer and of the
\* activity marker to a full ChatTTL after that append, and expiry removes
\* a buffer only when at least ChatTTL has passed since its last append
C23_SlidingTTL ==
  /\ [](\A u \in Users : chat[u] # <<>> =>
          /\ chat_expire[u] = LastAppend(u) + ChatTTL
          /\ activity_expire[u] = LastAppend(u) + ChatTTL)
  /\ [][\A u \in Users :
          (chat[u] # <<>> /\ Loads(Head(chat[u])) \in expired' \ expired) =>
             now' - LastAppend(u) >= ChatTTL]_vars

\* a turn appended after a pause, to a buffer that already had an expiry,
\* has been removed by expiry
C23_Witness ==
  \E m \in expired :
    /\ m.timestamp >= StartTime + PreloadLen + InactiveThreshold
    /\ chat[m.user_id] = <<>>
    /\ now - m.timestamp >= ChatTTL

\* ------------------------------------------- the buffer is cleared whole
\* C24: in every step (an append, a flush, a sweep, TTL expiry) each buffer
\* stays as it is, gets exactly one turn at the front with all its turns
\* kept in place, or becomes empty
C24_ClearedOnlyAsAWhole ==
  [][\A u \in Users :
       \/ chat'[u] = chat[u]
       \/ chat'[u] # <<>> /\ Tail(chat'[u]) = chat[u]
       \/ chat'[u] = <<>>]_vars

\* a flush has cleared a buffer that another request appended to after the
\* flush had read it
C24_Witness ==
  /\ lastFlush = "cleared"
  /\ chat["user_1"] = <<>>
  /\ Cardinality(appended) > SummaryThreshold
  /\ expired = {}

\* ------------------------------------------------- the topK of a namespace
\* the namespace that holds what is known about the user: the specification
\* calls it user_history, select_namespaces user_summary
UserHistoryNamespaces == {"user_history", "user_summary"}

SpecifiedTopK(ns) == IF ns \in UserHistoryNamespaces THEN 5 ELSE 3

\* C25: get_context queries the user-history namespace with topK 5 and every
\* other selected namespace with topK 3, and returns at most that many
\* snippets for the namespace
C25_TopKPerNamespace ==
  retrieved.called =>
    \A ns \in DOMAIN retrieved.top_k :
      /\ retrieved.top_k[ns] = SpecifiedTopK(ns)
      /\ Len(retrieved.result[ns]) <= SpecifiedTopK(ns)

\* ---------------------------------------------------- retry at start-up
BackoffWaits == <<1, 2>>

\* RedisService.initialize has returned
RedisInitEnded == redis_initialized \/ attempts = 3

\* C27: both initialize calls retry a failed connection attempt with
\* exponential backoff: each makes at most 3 attempts, waits 1 s then 2 s
\* between failed attempts, and one that ends with its component disabled
\* after a failed connection attempt has made all 3 attempts
C27_BoundedRetryWithBackoff ==
  /\ attempts <= 3
  /\ pinecone_init.attempts <= 3
  /\ sleeps = SubSeq(BackoffWaits, 1, Len(sleeps))
  /\ pinecone_init.waits = SubSeq(BackoffWaits, 1, Len(pinecone_init.waits))
  /\ redis_initialized => attempts >= 1 /\ Len(sleeps) = attempts - 1
  /\ pinecone_initialized => pinecone_init.attempts >= 1
  /\ (RedisInitEnded /\ ~redis_initialized) => attempts = 3 /\ sleeps = BackoffWaits
  /\ (pinecone_init.ended /\ ~pinecone_initialized /\ pinecone_init.attempts > 0) =>
       pinecone_init.attempts = 3 /\ pinecone_init.waits = BackoffWaits

\* ------------------------------------------- the store that is not ready
\* C26: while PineconeService is not initialized, get_context,
\* save_user_data, upload_text_file and the Summary write of
\* create_and_save_summary leave the index alone, return an empty or
\* nothing-done result and raise nothing to their caller
C26_NotReadyShortCircuits ==
  /\ []((retrieved.called /\ ~retrieved.ready) =>
          /\ retrieved.result = EmptyMapping
          /\ DOMAIN retrieved.responses = {}
          /\ ~retrieved.raised)
  /\ []((profile_save.called /\ ~profile_save.ready) =>
          /\ ~profile_save.accessed
          /\ ~profile_save.raised)
  /\ []((upload.called /\ upload.reached /\ ~upload.ready) =>
          /\ ~upload.result.success
          /\ upload.result.chunks = 0
          /\ ~upload.result.raised)
  /\ [][~pinecone_initialized =>
          /\ index_vectors' = index_vectors
          /\ semantic_store' = semantic_store]_vars
  /\ [][\A p \in Procs :
          (pc[p] = "flush_save" /\ pc'[p] # "flush_save" /\ ~pinecone_initialized) =>
             /\ pc'[p] = "flush_clear"
             /\ ~wrote'[p]
             /\ escaped' = escaped]_vars

\* an upload that got as far as upload_text_file while the service was not
\* ready: nothing stored, a failure reported, the handler answers 500
C26_Witness ==
  /\ ~pinecone_initialized
  /\ upload.called
  /\ upload.reached
  /\ ~upload.ready
  /\ upload.status = "500"
  /\ index_vectors = {}

\* ------------------------------------------------- the generation fallback
\* the call did not get a completion: not initialized, or the client raised
FellBack(call) == ~call.initialized \/ ~call.completion.ok

\* C28: a generation call that is made while the service is not initialized,
\* or whose client call raises, returns the fallback response, and two such
\* calls with the same user message and the same profile return the same
\* text whatever their session buffers and retrieved contexts are
C28_FallbackContextFree ==
  \A i, j \in DOMAIN generations :
    LET a == generations[i]
        b == generations[j]
    IN  /\ FellBack(a) => a.fallback /\ a.text.template # "completion"
        /\ (FellBack(a) /\ FellBack(b) /\ a.user_message = b.user_message
              /\ a.user_data = b.user_data) => a.text = b.text

\* two calls fell back, one because the service was not initialized and one
\* because the client raised, on the same message and profile with different
\* buffers and different contexts
C28_Witness ==
  /\ Len(generations) = 2
  /\ ~generations[1].initialized
  /\ generations[2].initialized /\ ~generations[2].completion.ok
  /\ generations[1].user_message = generations[2].user_message
  /\ generations[1].user_data = generations[2].user_data
  /\ generations[1].redis_chat # generations[2].redis_chat
  /\ generations[1].vector_context # generations[2].vector_context
  /\ generations[1].text.template = "health"

\* ------------------------------------------- the recent turns of the prompt
Min(a, b) == IF a <= b THEN a ELSE b

\* the stored turns a call should hand over: the last min(6, n)
LastTurns(redis_chat) ==
  SubSeq(redis_chat, Len(redis_chat) - Min(RecentLimit, Len(redis_chat)) + 1, Len(redis_chat))

\* C29: the messages handed to the client hold, between the system prompt
\* and the current user message, one user/assistant pair for every one of
\* the last min(6, n) turns of the n-turn buffer, oldest first
C29_LastSixTurnsHandedOver ==
  \A i \in DOMAIN generations :
    LET call == generations[i]
        last == LastTurns(call.redis_chat)
    IN  call.messages # <<>> =>
          /\ Len(call.messages) = 2 * Len(last) + 2
          /\ \A k \in 1..Len(last) :
               /\ call.messages[2 * k] = [role |-> "user", content |-> last[k]["user_message"]]
               /\ call.messages[2 * k + 1] =
                    [role |-> "assistant", content |-> last[k]["marshee_response"]]
          /\ call.messages[Len(call.messages)] = [role |-> "user", content |-> call.user_message]

\* ------------------------------------------- the profile after onboarding
\* C30: when a request has set initial_setup_complete for a user while the
\* semantic store was ready, the profile vector of that user (id
\* user_<id>, type profile) is in the store when the request has returned
C30_ProfileWrittenOnCompletion ==
  (setup.called /\ setup.complete /\ setup.ready) =>
     ProfileVector(setup.firestore_id) \in index_vectors


\* -------------------------------------------------------------- onboarding
\* the requests so far submitted every stage when it was the current one
InOrder == interaction.skips = 0

\* C31: the stages form one linear chain: a user whose submissions follow
\* next_stage from user_name has completed a prefix of STAGE_MODULES in its
\* order, stands at the stage after that prefix, and has finished the setup
\* exactly when all 7 stages are completed; no stage is visited twice and
\* none leads backwards or to itself
C31_LinearStageChain ==
  InOrder =>
    \A id \in DOMAIN users :
      LET k == Len(users[id].completed_stages)
      IN  /\ k <= Len(STAGE_MODULES)
          /\ users[id].completed_stages = SubSeq(STAGE_MODULES, 1, k)
          /\ users[id].current_stage =
               IF k < Len(STAGE_MODULES) THEN STAGE_MODULES[k + 1] ELSE "main_conversation"
          /\ users[id].initial_setup_complete <=> (k = Len(STAGE_MODULES))

C31_Witness ==
  /\ InOrder
  /\ "user_1" \in DOMAIN users
  /\ users["user_1"].initial_setup_complete
  /\ users["user_1"].completed_stages = STAGE_MODULES

\* C32: a user whose initial setup is complete has completed every stage
C32_CompleteOnlyAfterEveryStage ==
  \A id \in DOMAIN users :
    users[id].initial_setup_complete =>
      Range(users[id].completed_stages) = Range(STAGE_MODULES)

\* C33: a submission that fails validation is answered with success false
\* and the submitted stage_id, and leaves the user's record as get_user reads
\* it (a first request stores the new user's default document, whose fields
\* are what an absent document reads as) and the chat documents as they were
C33_InvalidSubmissionChangesNothing ==
  [][(interaction'.called /\ interaction'.submitted /\ ~interaction'.valid) =>
       /\ interaction'.response.status = "200"
       /\ ~interaction'.response.success
       /\ interaction'.response.stage_id = interaction'.stage_id
       /\ \A id \in UserIdInputs : get_user(id)' = get_user(id)
       /\ \A id \in DOMAIN users : users'[id] = users[id]
       /\ chat_messages' = chat_messages]_vars

C33_Witness ==
  /\ interaction.called
  /\ interaction.submitted
  /\ ~interaction.valid
  /\ interaction.stage_id = "pet_type"
  /\ users[interaction.firestore_id].completed_stages = <<"user_name", "pet_name">>
  /\ Cardinality(chat_messages) = 2

\* the place of a stage in the chain
StagePlace(stage_id) == CHOOSE i \in DOMAIN STAGE_MODULES : STAGE_MODULES[i] = stage_id

\* C34: the stage_number of a response that presents a stage is the stage's
\* place in the chain, so the numbers along the chain increase strictly, are
\* pairwise distinct and are exactly 1..TOTAL_STAGES
C34_StageNumbersFollowTheChain ==
  (interaction.called /\ interaction.response.flow_type = "initial") =>
     /\ interaction.response.stage_number = StagePlace(interaction.response.stage_id)
     /\ interaction.response.stage_number \in 1..TOTAL_STAGES
     /\ interaction.response.total_stages = Len(STAGE_MODULES)


\* ------------------------------------------------------ per-user isolation
\* the two keys of a user and what Redis holds under them
RedisOf(v) == <<chat[v], chat_expire[v], activity[v], activity_expire[v]>>

KeysOf(v) == {get_chat_key(v), get_last_activity_key(v)}

\* C35: the operations of a task that works for user u touch chat:u and
\* activity:u only: distinct ids have disjoint keys; a step of add_message,
\* of the flush or of the count leaves the entries of every other user as
\* they were; a flush's snapshot holds turns of its own user only; and the
\* id the sweep recovers from an activity key is the id that key was built
\* from, colons included
C35_PerUserIsolation ==
  [][/\ \A u \in Users : \A v \in Users \ {u} : KeysOf(u) \cap KeysOf(v) = {}
     /\ \A p \in Procs :
          pc'[p] # pc[p] =>
            /\ \A v \in Users \ {uid[p], uid'[p]} : RedisOf(v)' = RedisOf(v)
            /\ \A i \in DOMAIN chat_history'[p] : chat_history'[p][i].user_id = uid'[p]
     /\ \A s \in Sweepers :
          (uid'[s] # uid[s] /\ uid'[s] # None) =>
             /\ todo[s] \ todo'[s] = {get_last_activity_key(uid'[s])}
             /\ uid'[s] \in Users]_vars

\* the sweep has cleared the buffer of the id with a colon while a request
\* task was appending for the other id, whose buffer is intact
C35_Witness ==
  /\ lastFlush # "none"
  /\ chat["user_1:2"] = <<>>
  /\ activity["user_1:2"] = Nil
  /\ Len(chat["user_1"]) >= PreloadLen
  /\ pc["h1"] # "idle"
  /\ uid["h1"] = "user_1"


\* C36: a user's activity marker exists exactly while the user's buffer
\* holds a turn: the append sets both in one pipeline with one TTL, the clear
\* deletes both in one pipeline, and expiry takes both at the same second
C36_MarkerIffBuffer ==
  \A u \in Users : (activity[u] # Nil) <=> (chat[u] # <<>>)

\* both set by an append of this behaviour and both gone again after a clear
C36_Witness ==
  /\ nAppends > 0
  /\ lastFlush = "cleared"
  /\ activity["user_1"] = Nil
  /\ chat["user_1"] = <<>>


\* C37: an add_message call changes a Redis entry, goes on to the threshold
\* test or lets an exception out only if its user id has at least 3
\* characters and both texts are non-empty; a call with an invalid input
\* returns with every buffer, marker and TTL as they were and without a flush
C37_InvalidAppendChangesNothing ==
  [][\A p \in Handlers :
       (pc[p] = "idle" /\ pc'[p] # "idle") =>
          \/ /\ Len(uid'[p]) >= MinUserIdLen
             /\ pc'[p] = "llen"
             /\ chat'[uid'[p]] # <<>>
             /\ Len(Loads(Head(chat'[uid'[p]])).user_message) > 0
             /\ Len(Loads(Head(chat'[uid'[p]])).marshee_response) > 0
             /\ Tail(chat'[uid'[p]]) = chat[uid'[p]]
          \/ /\ pc'[p] = "count"
             /\ redisVars' = redisVars
             /\ histVars' = histVars
             /\ thresholdFlushAt' = thresholdFlushAt
             /\ lastFlush' = lastFlush
             /\ escaped' = escaped]_vars

\* add_message has returned from a call with a user id of two characters,
\* the buffer of PreloadLen turns is as it was
C37_Witness ==
  /\ redis_initialized
  /\ redisUp
  /\ \E p \in Handlers : pc[p] = "count" /\ uid[p] = "u1"
  /\ Len(chat["user_1"]) = PreloadLen
  /\ nAppends = 0


\* no outage or long pause so far, and no flush has met an exception
Undisturbed ==
  /\ redisUp
  /\ events = 0
  /\ escaped = {}
  /\ failedSnapshot = <<>>
  /\ lastFlush \notin {"save_raised", "clear_raised"}

\* no request task is inside add_message
NoAppendInProgress == \A p \in Handlers : pc[p] \in {"idle", "count"}

\* C38: while Redis answers and no Summary write has failed, a buffer never
\* holds more than SummaryThreshold turns, and holds fewer whenever no
\* add_message call is in progress
C38_BufferBoundedByThreshold ==
  Undisturbed =>
    \A u \in Users :
      /\ Len(chat[u]) <= SummaryThreshold
      /\ NoAppendInProgress => Len(chat[u]) < SummaryThreshold

====
